---- MODULE Spec2Model ----
(***************************************************************************)
(* The persistent job queue (SQLite job store, packages/state/index.mjs)   *)
(* and the worker pool that drives it (apps/worker/queueWorker.mjs).       *)
(*                                                                         *)
(* Every caller of the store (a worker loop, the API server, a test) is    *)
(* modelled with its own position, so the interleavings are those of       *)
(* callers in several processes sharing one database file.  Loops of one   *)
(* process share one synchronous connection: their interleavings are the   *)
(* subset in which TakeBegin, TakeSelect and TakeUpdate of one call run    *)
(* without another caller's step in between.                               *)
(*                                                                         *)
(* The loops' retry delay, idle backoff and remote download are followed   *)
(* in specifications of their own (RetrySpec, IdleSpec, DownloadSpec), in  *)
(* which the configuration, the responses and the bodies range over sets.  *)
(*                                                                         *)
(* Nullable values are sequences: <<>> is null, <<v>> is the value v.      *)
(* A patch field is <<>> when the patch does not name the key and <<v>>    *)
(* when it names it with value v (v itself nullable where the code allows).*)
(***************************************************************************)
EXTENDS Integers, Sequences, FiniteSets, TLC

\* ---- bounds of the model ------------------------------------------------
NumJobs == 2              \* ids the API may create
MaxTime == 2              \* the clock runs 0..MaxTime (model milliseconds)
MsPerSecond == 2          \* model milliseconds in one second of datetime()
WorkerMaxRetries == 1     \* config.workerMaxRetries
WorkerRetryBaseMs == 1    \* config.workerRetryBaseMs
StoreJobs == 1            \* jobs created in the runs of direct callers
DownloadTimeoutMs == 1    \* config.downloadTimeoutMs
NumTenants == 2           \* tenants created before the jobs
WorkerIdleBackoffMs == 1  \* config.workerIdleBackoffMs
PollIntervalMs == 1       \* config.pollIntervalMs
DownloadMaxBytes == 2     \* config.downloadMaxBytes
MaxBaseMs == 5            \* largest workerRetryBaseMs of the configurations tried
MaxTimeoutMs == 2         \* largest downloadTimeoutMs of the configurations tried
MaxRetryLimit == 3        \* largest workerMaxRetries of the configurations tried
MaxAttemptNo == 6         \* largest attempt number computeRetryDelay is asked for
MaxChunk == 2             \* largest chunk of a response body
NumCallers == 3           \* calls of the JSON store helper in progress at once
NumLockCallers == 2       \* of them, callers of withStore while time passes
MaxVersion == 2           \* mutations a state of the JSON store has seen
\* ---- program constants --------------------------------------------------
WorkerConcurrency == 2    \* config.workerConcurrency (default)
\* jsonStore.mjs: LOCK_TIMEOUT_MS (10 s) and STALE_LOCK_MS (60 s) in units of time
\* that keep their order; LOCK_RETRY_MS (50 ms) is less than one unit
LOCK_TIMEOUT_MS == 1
STALE_LOCK_MS == 2

Null == <<>>
Some(v) == <<v>>
Val(x) == x[1]

JobIds == 1..NumJobs
Workers == 1..WorkerConcurrency
\* ids of the rows of the tenants table
Tenants == 1..NumTenants

VARIABLES
    now,        \* Date.now()
    jobs,       \* the jobs table: id -> row, for the ids inserted so far
    dbLock,     \* holder of the database write lock (BEGIN IMMEDIATE), or Null
    pc,         \* position of each worker loop
    nowMs,      \* takeNextQueuedJob's local nowMs, per caller
    row,        \* takeNextQueuedJob's local row, per caller
    job,        \* processLoop's local job (the copy the call gave back), per worker
    lastOp,     \* history: the store operation that ran last
    config,     \* queueWorker.mjs: const config = loadConfig()
    idleDelay,  \* processLoop's local idleDelay, per worker
    error,      \* handleJob's caught error (its message), per worker, or Null
    dl,         \* downloadRemote's response and the limiter's count, per worker
    files,      \* the source file in each job's directory: its bytes, or Null
    disk,       \* jsonStore.mjs: the lock file, the store file and its backup
    proc,       \* jsonStore.mjs: each caller's position and locals
    hist        \* history: what the store file last held in full, what persist last finished

vars == <<now, jobs, dbLock, pc, nowMs, row, job, lastOp, config, idleDelay, error, dl, files,
          disk, proc, hist>>

\* the state of the SQLite store and of the worker pool
queueVars == <<now, jobs, dbLock, pc, nowMs, row, job, lastOp, config, idleDelay, error, dl, files>>

\* the state of the JSON store helper
jsonVars == <<disk, proc, hist>>

\* the state of the worker process beyond the positions of its loops
loopVars == <<config, idleDelay, error, dl, files>>

\* the configuration the model runs the pool with
DefaultConfig ==
    [workerMaxRetries |-> WorkerMaxRetries,
     workerRetryBaseMs |-> WorkerRetryBaseMs,
     downloadTimeoutMs |-> DownloadTimeoutMs,
     workerIdleBackoffMs |-> WorkerIdleBackoffMs,
     pollIntervalMs |-> PollIntervalMs,
     downloadMaxBytes |-> DownloadMaxBytes]

\* no download in progress
NoDownload == [phase |-> "none", ok |-> TRUE, contentType |-> <<>>, declared |-> <<>>,
               left |-> 0, total |-> 0]

NoPatch == [status |-> <<>>, availableAt |-> <<>>, errorMessage |-> <<>>,
            metadata |-> <<>>, output |-> <<>>, attempts |-> <<>>,
            variantCount |-> <<>>]

\* the keys a patch names
Keys(patch) == {k \in DOMAIN patch : patch[k] # <<>>}

\* history record of a store operation: its name and whether its patch names attempts
Op(name, id, patch) == [op |-> name, attempts |-> "attempts" \in Keys(patch)]

\* ---- pure helpers of the store ------------------------------------------

\* SQLite's datetime(created_at): 'YYYY-MM-DD HH:MM:SS', the fraction dropped.
Datetime(ms) == ms \div MsPerSecond

\* variant: the delay is not looked at
IsReadyNoDelay(r, t) == r.status = "queued"

\* variant: the status is not looked at
IsReadyAnyStatus(r, t) == r.availableAt = Null \/ Val(r.availableAt) <= t

\* variant: a processing row not touched since before t can be claimed again
IsReadyOrStale(r, t) ==
    \/ /\ r.status = "queued"
       /\ (r.availableAt = Null \/ Val(r.availableAt) <= t)
    \/ r.status = "processing" /\ r.updatedAt < t

\* WHERE status = 'queued' AND (available_at IS NULL OR available_at <= ?)
IsReady(r, t) ==
    /\ r.status = "queued"
    /\ (r.availableAt = Null \/ Val(r.availableAt) <= t)

\* position of a row's available_at in an index: NULL sorts before every number
AvailKey(r) == IF r.availableAt = Null THEN -1 ELSE Val(r.availableAt)

\* row j comes before row k in jobs_status_idx (status, available_at, created_at),
\* both having the same status; rows equal on the key are in rowid order
StatusIdxBefore(j, k) ==
    \/ AvailKey(jobs[j]) < AvailKey(jobs[k])
    \/ /\ AvailKey(jobs[j]) = AvailKey(jobs[k])
       /\ \/ jobs[j].createdAt < jobs[k].createdAt
          \/ jobs[j].createdAt = jobs[k].createdAt /\ j < k

\* ORDER BY datetime(created_at) ASC LIMIT 1 over the scan of jobs_status_idx: the
\* first row by datetime(created_at); rows of one second keep the order of the scan.
SelectNext(t) ==
    {j \in DOMAIN jobs :
        /\ IsReady(jobs[j], t)
        /\ \A k \in DOMAIN jobs \ {j} :
              IsReady(jobs[k], t) =>
                  \/ Datetime(jobs[j].createdAt) < Datetime(jobs[k].createdAt)
                  \/ /\ Datetime(jobs[j].createdAt) = Datetime(jobs[k].createdAt)
                     /\ StatusIdxBefore(j, k)}

\* a raw variantCount argument: absent, not a number, or the number n
Missing == [kind |-> "missing", n |-> 0]
NotANumber == [kind |-> "text", n |-> 0]
Num(n) == [kind |-> "number", n |-> n]

\* variant: the parsed number is not clamped
NormalizeVariantCountUnclamped(value) == IF value.kind # "number" THEN 3 ELSE value.n

\* normalizeVariantCount(value)
NormalizeVariantCount(value) ==
    IF value.kind # "number" THEN 3 ELSE IF value.n < 1 THEN 1 ELSE IF value.n > 5 THEN 5 ELSE value.n

\* x || null for a nullable string: the empty string counts as absent
OrNull(x) == IF x = <<"">> THEN <<>> ELSE x

\* buildUpdateStatement + UPDATE: the row after the patch's assignments.
ApplyPatch(r, patch) ==
    [r EXCEPT
        !.status = IF patch.status # <<>> THEN Val(patch.status) ELSE @,
        !.availableAt = IF patch.availableAt # <<>> THEN Val(patch.availableAt) ELSE @,
        !.errorMessage = IF patch.errorMessage # <<>> THEN Val(patch.errorMessage) ELSE @,
        !.metadata = IF patch.metadata # <<>>
                     THEN (IF Val(patch.metadata) = Null THEN "{}" ELSE Val(Val(patch.metadata)))
                     ELSE @,
        !.output = IF patch.output # <<>> THEN Val(patch.output) ELSE @,
        !.attempts = IF patch.attempts # <<>> THEN Val(patch.attempts) ELSE @,
        !.variantCount = IF patch.variantCount # <<>>
                         THEN NormalizeVariantCount(Val(patch.variantCount))
                         ELSE @]

\* variant: an id of no row gets a row of its own
UpdateJobUpsert(id, patch) ==
    IF Keys(patch) = {}
    THEN jobs
    ELSE IF id \in DOMAIN jobs
         THEN [jobs EXCEPT ![id] = [ApplyPatch(@, patch) EXCEPT !.updatedAt = now]]
         ELSE IF id = Len(jobs) + 1 /\ jobs # <<>>
              THEN Append(jobs, [ApplyPatch(jobs[1], patch) EXCEPT !.updatedAt = now])
              ELSE jobs

\* updateJob(filePath, jobId, patch): no assignments, no UPDATE; otherwise
\* UPDATE jobs SET <assignments>, updated_at = :updatedAt WHERE id = :id
UpdateJob(id, patch) ==
    IF Keys(patch) = {}
    THEN jobs
    ELSE IF id \in DOMAIN jobs
         THEN [jobs EXCEPT ![id] = [ApplyPatch(@, patch) EXCEPT !.updatedAt = now]]
         ELSE jobs

\* formatTimestamp(value): null stays null, a number of milliseconds becomes the
\* ISO string of that instant
FormatTimestamp(value) == IF value = Null THEN Null ELSE Some(<<"iso", Val(value)>>)

\* parseJsonColumn(value, fallback): the parsed text, the fallback for a column that
\* is NULL or empty
ParseJsonColumn(value, fallback) ==
    IF value = Null THEN fallback
    ELSE IF Val(value) = "" THEN fallback ELSE Some(<<"parsed", Val(value)>>)

\* serializeJob(row): the job object made of a row (the fields the model follows)
SerializeJob(r) ==
    [id |-> r.id,
     tenantId |-> r.tenantId,
     variantCount |-> r.variantCount,
     status |-> r.status,
     createdAt |-> r.createdAt,
     updatedAt |-> r.updatedAt,
     availableAt |-> FormatTimestamp(r.availableAt),
     attempts |-> r.attempts,
     errorMessage |-> OrNull(r.errorMessage),
     metadata |-> ParseJsonColumn(Some(r.metadata), Some(<<"parsed", "{}">>)),
     output |-> ParseJsonColumn(r.output, Null)]

\* getJob(filePath, jobId) after the update: the id of the row serialized, or null
GetJob(id) == IF id \in DOMAIN jobs THEN Some(id) ELSE Null

RECURSIVE Pow2(_)
Pow2(n) == IF n <= 0 THEN 1 ELSE 2 * Pow2(n - 1)

Min(a, b) == IF a <= b THEN a ELSE b
Max(a, b) == IF a >= b THEN a ELSE b

\* variant: the backoff is not capped
ComputeRetryDelayUncapped(attempt) ==
    config.workerRetryBaseMs * Pow2(Max(0, attempt - 1))

\* variant: the exponent is the attempt number
ComputeRetryDelayFromAttempt(attempt) ==
    Min(config.workerRetryBaseMs * Pow2(Max(0, attempt)), config.downloadTimeoutMs * 4)

\* computeRetryDelay(attempt)
ComputeRetryDelay(attempt) ==
    Min(config.workerRetryBaseMs * Pow2(Max(0, attempt - 1)), config.downloadTimeoutMs * 4)

\* variant: the delay is added as given
RequeuePatchUnclamped(delayMs, errorMessage) ==
    [NoPatch EXCEPT
        !.status = Some("queued"),
        !.availableAt = Some(Some(now + (IF delayMs = Null THEN 0 ELSE Val(delayMs)))),
        !.errorMessage = Some(OrNull(errorMessage))]

\* requeueJob's patch: availableAt = Date.now() + Math.max(0, delayMs || 0),
\* errorMessage || null (delayMs and errorMessage nullable)
RequeuePatch(delayMs, errorMessage) ==
    [NoPatch EXCEPT
        !.status = Some("queued"),
        !.availableAt = Some(Some(now + Max(0, IF delayMs = Null THEN 0 ELSE Val(delayMs)))),
        !.errorMessage = Some(OrNull(errorMessage))]

\* variant: the artifacts are not recorded
CompletedPatchNoOutput ==
    [NoPatch EXCEPT
        !.status = Some("completed"),
        !.availableAt = Some(Null),
        !.errorMessage = Some(Null),
        !.metadata = Some(Some("timeline"))]

\* the patch processJob passes to finalizeJob on success
CompletedPatch ==
    [NoPatch EXCEPT
        !.status = Some("completed"),
        !.availableAt = Some(Null),
        !.errorMessage = Some(Null),
        !.output = Some(Some("artifacts")),
        !.metadata = Some(Some("timeline"))]

\* variant: the message is not recorded
FailedPatchNoMessage(message) ==
    [NoPatch EXCEPT
        !.status = Some("failed"),
        !.availableAt = Some(Null)]

\* the patch handleJob passes to finalizeJob when retries are exhausted
FailedPatch(message) ==
    [NoPatch EXCEPT
        !.status = Some("failed"),
        !.availableAt = Some(Null),
        !.errorMessage = Some(Some(message))]

\* const attempts = job.attempts || 1
Attempts(w) == IF Val(job[w]).attempts = 0 THEN 1 ELSE Val(job[w]).attempts

\* variant: one retry too many
CanRetryOffByOne(attempts) == attempts <= config.workerMaxRetries + 1

\* const canRetry = attempts < config.workerMaxRetries + 1
CanRetry(attempts) == attempts < config.workerMaxRetries + 1

\* variant: the claim starts the count again
NextAttemptsReset(r) == 1

\* const attempts = Number(row.attempts) + 1
NextAttempts(r) == r.attempts + 1

\* variant: the claim leaves available_at as it was
ClaimedRowKeepingDelay(r, attempts) ==
    [r EXCEPT !.status = "processing", !.attempts = attempts]

\* UPDATE jobs SET status = 'processing', attempts = :attempts, available_at = NULL
ClaimedRow(r, attempts) ==
    [r EXCEPT !.status = "processing", !.attempts = attempts, !.availableAt = Null]

\* variant: a deferred transaction, which takes no lock before the read
BeginDeferred(w) == dbLock' = dbLock

\* db.exec('BEGIN IMMEDIATE;'): the write lock is taken, or the call is busy
BeginImmediate(w) == dbLock = Null /\ dbLock' = Some(w)

\* db.exec('COMMIT;')
Commit(w) == dbLock' = IF dbLock = Some(w) THEN Null ELSE dbLock

\* a write of another connection is refused while the lock is held
Busy(w) == dbLock # Null /\ dbLock # Some(w)

\* ---- initial state: initState on a fresh database, loops about to claim --

\* the process started with the configuration c
\* ---- the JSON store helper: files and callers ----------------------------------

\* what is at a path: a file holding a state of the store in full (a number of
\* Versions), no file (ENOENT), or a file whose text is not JSON (truncated by
\* writeFile's open, half written, or damaged)
Absent == -1
Torn == -2

\* the store's states: how many mutations the state has seen; defaultValue has none
Versions == 0..MaxVersion
DefaultValue == 0

\* JSON.parse(raw) returns
Parses(content) == content \in Versions

\* the calls of the helper that run side by side, each withStore, loadStore or
\* initStore
Callers == 1..NumCallers

\* no call in progress
NoCall == [pc |-> "idle", waited |-> 0, state |-> DefaultValue, threw |-> FALSE,
           seen |-> {}]

\* before initStore: no lock file, no store file, no backup
NoFiles == [lock |-> Null, main |-> Absent, bak |-> Absent]

NoHistory == [committed |-> DefaultValue, lastDone |-> Null]

\* the state after construction, with configuration c and files d on disk
InitOn(c, d) ==
    /\ disk = d
    /\ proc = [p \in Callers |-> NoCall]
    /\ hist = NoHistory
    /\ now = 0
    /\ jobs = <<>>
    /\ dbLock = Null
    /\ pc = [w \in Workers |-> "claim"]
    /\ nowMs = [w \in Workers |-> 0]
    /\ row = [w \in Workers |-> Null]
    /\ job = [w \in Workers |-> Null]
    /\ lastOp = Op("initState", 0, NoPatch)
    /\ config = c
    /\ idleDelay = [w \in Workers |-> c.workerIdleBackoffMs]
    /\ error = [w \in Workers |-> Null]
    /\ dl = [w \in Workers |-> NoDownload]
    /\ files = [j \in JobIds |-> Null]

InitWith(c) == InitOn(c, NoFiles)

Init == InitWith(DefaultConfig)

\* ---- the clock -----------------------------------------------------------

Tick ==
    /\ now < MaxTime
    /\ now' = now + 1
    /\ UNCHANGED <<disk, proc, hist, jobs, dbLock, pc, nowMs, row, job, lastOp>>
    /\ UNCHANGED loopVars

\* ---- createJob (called by the API server) --------------------------------

\* variant: the new job becomes available one tick after its creation
NewJobDelayed(input) ==
    [status |-> "queued", createdAt |-> now, availableAt |-> Some(now + 1),
     attempts |-> 0, errorMessage |-> Null, output |-> Null,
     updatedAt |-> now, tenantId |-> input.tenantId,
     variantCount |-> NormalizeVariantCount(input.variantCount),
     metadata |-> IF input.metadata = Null THEN "{}" ELSE Val(input.metadata)]

\* the row createJob inserts for jobInput (tenantId nullable: Null when absent)
NewJob(input) ==
    [status |-> "queued", createdAt |-> now, availableAt |-> Some(now),
     attempts |-> 0, errorMessage |-> Null, output |-> Null,
     updatedAt |-> now, tenantId |-> input.tenantId,
     variantCount |-> NormalizeVariantCount(input.variantCount),
     metadata |-> IF input.metadata = Null THEN "{}" ELSE Val(input.metadata)]

\* variant: tenant_id is not checked
ConstraintsHoldUnchecked(r) == TRUE

\* tenant_id TEXT NOT NULL, FOREIGN KEY (tenant_id) REFERENCES tenants(id)
ConstraintsHold(r) == r.tenantId # Null /\ Val(r.tenantId) \in Tenants

\* variant: the insert replaces the row inserted last
InsertRowOverLast(r) == IF jobs = <<>> THEN <<r>> ELSE [jobs EXCEPT ![Len(jobs)] = r]

\* INSERT INTO jobs (...) VALUES (...): a new row under a new id
InsertRow(r) == Append(jobs, r)

\* createJob(filePath, jobInput): the insert adds the row, or fails on a constraint
\* and the error goes to the caller
CreateJobWith(input) ==
    /\ Len(jobs) < NumJobs
    /\ dbLock = Null
    /\ IF ConstraintsHold(NewJob(input))
       THEN /\ jobs' = InsertRow(NewJob(input))
            /\ lastOp' = Op("createJob", Len(jobs) + 1, NoPatch)
       ELSE /\ jobs' = jobs
            /\ lastOp' = Op("createJobError", 0, NoPatch) @@ [tenantId |-> input.tenantId]
    /\ UNCHANGED <<disk, proc, hist, now, dbLock, pc, nowMs, row, job>>
    /\ UNCHANGED loopVars

\* the jobInput the API server builds: the authenticated tenant, variantCount
\* clamped or undefined, metadata an object
ApiInputs == {[tenantId |-> Some(1), variantCount |-> Missing, metadata |-> Null]}

\* POST /v1/jobs
CreateJob == \E input \in ApiInputs : CreateJobWith(input)

\* ---- listJobs --------------------------------------------------------------

\* variant: the tenant is not looked at
MatchingAnyTenant(tenantId) == DOMAIN jobs

\* WHERE tenant_id = ? (tenantId nullable; NULL equals nothing)
Matching(tenantId) ==
    {j \in DOMAIN jobs : tenantId # Null /\ jobs[j].tenantId = tenantId}

\* variant: the index is in ascending order of created_at
TenantIdxBeforeAsc(j, k) ==
    \/ jobs[j].createdAt < jobs[k].createdAt
    \/ jobs[j].createdAt = jobs[k].createdAt /\ j < k

\* row j comes before row k in jobs_tenant_idx (tenant_id, created_at DESC), both of
\* the same tenant; rows equal on the key are in rowid order
TenantIdxBefore(j, k) ==
    \/ jobs[j].createdAt > jobs[k].createdAt
    \/ jobs[j].createdAt = jobs[k].createdAt /\ j < k

\* ORDER BY datetime(created_at) DESC over the scan of jobs_tenant_idx: rows of one
\* second keep the order of the scan
ListBefore(j, k) ==
    \/ Datetime(jobs[j].createdAt) > Datetime(jobs[k].createdAt)
    \/ /\ Datetime(jobs[j].createdAt) = Datetime(jobs[k].createdAt)
       /\ TenantIdxBefore(j, k)

\* listJobs(filePath, tenantId, limit): the ids of the rows returned, in order
\* (LIMIT with a negative number gives every row)
ListJobs(tenantId, limit) ==
    LET m == Matching(tenantId)
        rank(j) == Cardinality({k \in m : ListBefore(k, j)}) + 1
        n == IF limit < 0 THEN Cardinality(m) ELSE Min(limit, Cardinality(m))
    IN [i \in 1..n |-> CHOOSE j \in m : rank(j) = i]

\* ---- takeNextQueuedJob ---------------------------------------------------

\* const nowMs = Date.now(); db.exec('BEGIN IMMEDIATE;')
TakeBegin(w) ==
    /\ pc[w] = "claim"
    /\ BeginImmediate(w)
    /\ nowMs' = [nowMs EXCEPT ![w] = now]
    /\ pc' = [pc EXCEPT ![w] = "select"]
    /\ UNCHANGED <<disk, proc, hist, now, jobs, row, job, lastOp>>
    /\ UNCHANGED loopVars

\* BEGIN IMMEDIATE fails with SQLITE_BUSY: the error leaves the loop
TakeBusy(w) ==
    /\ pc[w] = "claim"
    /\ Busy(w)
    /\ pc' = [pc EXCEPT ![w] = "crashed"]
    /\ UNCHANGED <<disk, proc, hist, now, jobs, dbLock, nowMs, row, job, lastOp>>
    /\ UNCHANGED loopVars

\* SELECT ... LIMIT 1; no row: COMMIT and return null
TakeSelect(w) ==
    /\ pc[w] = "select"
    /\ IF SelectNext(nowMs[w]) = {}
       THEN /\ Commit(w)
            /\ pc' = [pc EXCEPT ![w] = "sleep"]
            /\ lastOp' = Op("takeNull", 0, NoPatch)
            /\ nowMs' = [nowMs EXCEPT ![w] = 0]
            /\ UNCHANGED row
       ELSE /\ \E j \in SelectNext(nowMs[w]) :
                 row' = [row EXCEPT ![w] = Some([id |-> j] @@ jobs[j])]
            /\ pc' = [pc EXCEPT ![w] = "update"]
            /\ UNCHANGED <<dbLock, lastOp, nowMs>>
    /\ UNCHANGED <<disk, proc, hist, now, jobs, job>>
    /\ UNCHANGED loopVars

\* return serializeJob({ ...row, status: 'processing', attempts, available_at: null,
\* updated_at: nowIso }): the copy is made of the row the SELECT gave
ReturnedJob(w) ==
    SerializeJob([Val(row[w]) EXCEPT !.status = "processing",
                                     !.attempts = NextAttempts(Val(row[w])),
                                     !.availableAt = Null,
                                     !.updatedAt = nowMs[w]])

\* UPDATE jobs SET status = 'processing', attempts, available_at = NULL,
\* updated_at = nowIso WHERE id = :id; COMMIT; return the serialized copy, of which
\* the loop reads id and attempts; processLoop: idleDelay = config.workerIdleBackoffMs
TakeUpdate(w) ==
    /\ pc[w] = "update"
    /\ LET r == Val(row[w])
           attempts == NextAttempts(r)
       IN /\ jobs' = [jobs EXCEPT ![r.id] =
                         [ClaimedRow(@, attempts) EXCEPT !.updatedAt = nowMs[w]]]
          /\ job' = [job EXCEPT ![w] = Some([id |-> ReturnedJob(w).id,
                                             attempts |-> ReturnedJob(w).attempts])]
          /\ lastOp' = Op("take", r.id, NoPatch)
    /\ Commit(w)
    /\ row' = [row EXCEPT ![w] = Null]
    /\ nowMs' = [nowMs EXCEPT ![w] = 0]
    /\ pc' = [pc EXCEPT ![w] = "process"]
    /\ idleDelay' = [idleDelay EXCEPT ![w] = config.workerIdleBackoffMs]
    /\ UNCHANGED <<disk, proc, hist, now, config, error, dl, files>>

\* ---- processLoop / handleJob / processJob --------------------------------

\* variant: the ceiling is the poll interval alone
MaxDelayPollOnly == config.pollIntervalMs

\* const maxDelay = Math.max(config.pollIntervalMs, idleDelay * 4)
MaxDelay == Max(config.pollIntervalMs, config.workerIdleBackoffMs * 4)

\* await sleep(idleDelay); idleDelay = Math.min(maxDelay, idleDelay * 2); continue
Wake(w) ==
    /\ pc[w] = "sleep"
    /\ pc' = [pc EXCEPT ![w] = "claim"]
    /\ idleDelay' = [idleDelay EXCEPT ![w] = Min(MaxDelay, @ * 2)]
    /\ UNCHANGED <<disk, proc, hist, now, jobs, dbLock, nowMs, row, job, lastOp, config, error, dl, files>>

\* a caller that got null claims again, after a pause whose length is left open
\* (the loops' idleDelay is followed in IdleSpec)
ClaimAgain(w) ==
    /\ pc[w] = "sleep"
    /\ pc' = [pc EXCEPT ![w] = "claim"]
    /\ UNCHANGED <<disk, proc, hist, now, jobs, dbLock, nowMs, row, job, lastOp>>
    /\ UNCHANGED loopVars

\* the message of the error a refused write throws
StoreBusy == "database is locked"

\* the message of a download or clip-generation failure
ProcessError == "boom"

\* variant: processJob throws after finalizeJob(completed) has written
CompleteThenThrow(w) ==
    /\ pc[w] = "process"
    /\ dbLock = Null
    /\ jobs' = UpdateJob(Val(job[w]).id, CompletedPatch)
    /\ lastOp' = Op("finalizeJob", Val(job[w]).id, CompletedPatch)
    /\ pc' = [pc EXCEPT ![w] = "catch"]
    /\ error' = [error EXCEPT ![w] = Some(ProcessError)]
    /\ dl' = [dl EXCEPT ![w] = NoDownload]
    /\ UNCHANGED <<disk, proc, hist, now, dbLock, nowMs, row, job, config, idleDelay, files>>

\* downloadIfNeeded and createClip succeeded: finalizeJob(completed)
Complete(w) ==
    /\ pc[w] = "process"
    /\ dbLock = Null
    /\ jobs' = UpdateJob(Val(job[w]).id, CompletedPatch)
    /\ lastOp' = Op("finalizeJob", Val(job[w]).id, CompletedPatch)
    /\ job' = [job EXCEPT ![w] = Null]
    /\ pc' = [pc EXCEPT ![w] = "claim"]
    /\ UNCHANGED <<disk, proc, hist, now, dbLock, nowMs, row>>
    /\ dl' = [dl EXCEPT ![w] = NoDownload]
    /\ UNCHANGED <<config, idleDelay, error, files>>

\* finalizeJob(completed) throws SQLITE_BUSY inside processJob: caught by handleJob
CompleteBusy(w) ==
    /\ pc[w] = "process"
    /\ Busy(w)
    /\ pc' = [pc EXCEPT ![w] = "catch"]
    /\ UNCHANGED <<disk, proc, hist, now, jobs, dbLock, nowMs, row, job, lastOp>>
    /\ error' = [error EXCEPT ![w] = Some(StoreBusy)]
    /\ dl' = [dl EXCEPT ![w] = NoDownload]
    /\ UNCHANGED <<config, idleDelay, files>>

\* downloadIfNeeded or createClip threw: caught by handleJob
ProcessFail(w) ==
    /\ pc[w] = "process"
    /\ pc' = [pc EXCEPT ![w] = "catch"]
    /\ UNCHANGED <<disk, proc, hist, now, jobs, dbLock, nowMs, row, job, lastOp>>
    /\ error' = [error EXCEPT ![w] = Some(ProcessError)]
    /\ dl' = [dl EXCEPT ![w] = NoDownload]
    /\ UNCHANGED <<config, idleDelay, files>>

\* canRetry: requeueJob(id, computeRetryDelay(attempts), message)
Requeue(w) ==
    /\ pc[w] = "catch"
    /\ CanRetry(Attempts(w))
    /\ dbLock = Null
    /\ LET patch == RequeuePatch(Some(ComputeRetryDelay(Attempts(w))), error[w])
       IN /\ jobs' = UpdateJob(Val(job[w]).id, patch)
          /\ lastOp' = Op("requeueJob", Val(job[w]).id, patch)
    /\ job' = [job EXCEPT ![w] = Null]
    /\ pc' = [pc EXCEPT ![w] = "claim"]
    /\ UNCHANGED <<disk, proc, hist, now, dbLock, nowMs, row>>
    /\ error' = [error EXCEPT ![w] = Null]
    /\ UNCHANGED <<config, idleDelay, dl, files>>

\* retries exhausted: finalizeJob(id, {status: 'failed', ...})
FinalizeFailed(w) ==
    /\ pc[w] = "catch"
    /\ ~CanRetry(Attempts(w))
    /\ dbLock = Null
    /\ jobs' = UpdateJob(Val(job[w]).id, FailedPatch(Val(error[w])))
    /\ lastOp' = Op("finalizeJob", Val(job[w]).id, FailedPatch(Val(error[w])))
    /\ job' = [job EXCEPT ![w] = Null]
    /\ pc' = [pc EXCEPT ![w] = "claim"]
    /\ UNCHANGED <<disk, proc, hist, now, dbLock, nowMs, row>>
    /\ error' = [error EXCEPT ![w] = Null]
    /\ UNCHANGED <<config, idleDelay, dl, files>>

\* requeueJob or finalizeJob(failed) throws SQLITE_BUSY: the error leaves the loop
CatchBusy(w) ==
    /\ pc[w] = "catch"
    /\ Busy(w)
    /\ pc' = [pc EXCEPT ![w] = "crashed"]
    /\ UNCHANGED <<disk, proc, hist, now, jobs, dbLock, nowMs, row, job, lastOp>>
    /\ error' = [error EXCEPT ![w] = Null]
    /\ UNCHANGED <<config, idleDelay, dl, files>>

\* the worker dies while it processes the job it claimed
Crash(w) ==
    /\ pc[w] = "process"
    /\ pc' = [pc EXCEPT ![w] = "crashed"]
    /\ UNCHANGED <<disk, proc, hist, now, jobs, dbLock, nowMs, row, job, lastOp>>
    /\ UNCHANGED loopVars

\* ---- the program: API server and worker pool ------------------------------

Next ==
    \/ Tick
    \/ CreateJob
    \/ \E w \in Workers : TakeBegin(w)
    \/ \E w \in Workers : TakeBusy(w)
    \/ \E w \in Workers : TakeSelect(w)
    \/ \E w \in Workers : TakeUpdate(w)
    \/ \E w \in Workers : ClaimAgain(w)
    \/ \E w \in Workers : Complete(w)
    \/ \E w \in Workers : CompleteBusy(w)
    \/ \E w \in Workers : ProcessFail(w)
    \/ \E w \in Workers : Requeue(w)
    \/ \E w \in Workers : FinalizeFailed(w)
    \/ \E w \in Workers : CatchBusy(w)
    \/ \E w \in Workers : Crash(w)

Spec == Init /\ [][Next]_vars

\* ---- the pool with the idle backoff of its loops followed ------------------

\* pollIntervalMs of the configurations: the default, and one above four idle delays
IdlePolls == {PollIntervalMs, 4 * WorkerIdleBackoffMs + 1}

IdleInit == \E p \in IdlePolls : InitWith([DefaultConfig EXCEPT !.pollIntervalMs = p])

\* POST /v1/jobs, for as many jobs as the runs of direct callers have
IdleCreateJob == Len(jobs) < StoreJobs /\ CreateJob

IdleNext ==
    \/ Tick
    \/ IdleCreateJob
    \/ \E w \in Workers : TakeBegin(w)
    \/ \E w \in Workers : TakeBusy(w)
    \/ \E w \in Workers : TakeSelect(w)
    \/ \E w \in Workers : TakeUpdate(w)
    \/ \E w \in Workers : Wake(w)
    \/ \E w \in Workers : Complete(w)
    \/ \E w \in Workers : CompleteBusy(w)
    \/ \E w \in Workers : ProcessFail(w)
    \/ \E w \in Workers : Requeue(w)
    \/ \E w \in Workers : FinalizeFailed(w)
    \/ \E w \in Workers : CatchBusy(w)
    \/ \E w \in Workers : Crash(w)

IdleSpec == IdleInit /\ [][IdleNext]_vars

\* ---- any caller of the store's exported operations ------------------------

\* Direct callers (tests/state.test.ts, scripts) call the exported operations in any
\* order with their own arguments; the pool's finalizeJob and requeueJob calls are
\* among these sequences.

\* the direct caller's position is kept in the slot of the first loop
Caller == CHOOSE w \in Workers : \A v \in Workers : w <= v

\* attempts a direct caller drives a job to, as far as the pool does
MaxAttempts == WorkerMaxRetries + 1

\* patches direct callers pass to updateJob
UpdatePatches == {[NoPatch EXCEPT !.attempts = Some(0)]}

\* patches direct callers pass to finalizeJob (tests/state.test.ts:73)
FinalizePatches ==
    {[NoPatch EXCEPT !.status = Some("failed"), !.errorMessage = Some(Some("boom"))],
     [NoPatch EXCEPT !.status = Some("completed")]}

\* the delay direct callers pass to requeueJob: a positive one
ClientDelays == {1}

\* updateJob(id, patch) by a direct caller
ClientUpdateJob ==
    /\ dbLock = Null
    /\ \E id \in DOMAIN jobs, patch \in UpdatePatches :
          /\ jobs' = UpdateJob(id, patch)
          /\ lastOp' = Op("updateJob", id, patch)
    /\ UNCHANGED <<disk, proc, hist, now, dbLock, pc, nowMs, row, job>>
    /\ UNCHANGED loopVars

\* requeueJob(id, delayMs, errorMessage) by a direct caller
ClientRequeueJob ==
    /\ dbLock = Null
    /\ \E id \in DOMAIN jobs, delayMs \in ClientDelays :
          /\ jobs[id].attempts < MaxAttempts
          /\ jobs' = UpdateJob(id, RequeuePatch(Some(delayMs), Some("boom")))
          /\ lastOp' = Op("requeueJob", id, RequeuePatch(Some(delayMs), Some("boom")))
    /\ UNCHANGED <<disk, proc, hist, now, dbLock, pc, nowMs, row, job>>
    /\ UNCHANGED loopVars

\* finalizeJob(id, statusPatch) by a direct caller
ClientFinalizeJob ==
    /\ dbLock = Null
    /\ \E id \in DOMAIN jobs, patch \in FinalizePatches :
          /\ jobs' = UpdateJob(id, patch)
          /\ lastOp' = Op("finalizeJob", id, patch)
    /\ UNCHANGED <<disk, proc, hist, now, dbLock, pc, nowMs, row, job>>
    /\ UNCHANGED loopVars

\* a direct caller that got a job from takeNextQueuedJob and calls it again
Abandon(w) ==
    /\ pc[w] = "process"
    /\ job' = [job EXCEPT ![w] = Null]
    /\ pc' = [pc EXCEPT ![w] = "claim"]
    /\ UNCHANGED <<disk, proc, hist, now, jobs, dbLock, nowMs, row, lastOp>>
    /\ UNCHANGED loopVars

\* createJob by a direct caller
StoreCreateJob == Len(jobs) < StoreJobs /\ CreateJob

StoreNext ==
    \/ Tick
    \/ StoreCreateJob
    \/ TakeBegin(Caller)
    \/ TakeSelect(Caller)
    \/ TakeUpdate(Caller)
    \/ ClaimAgain(Caller)
    \/ Abandon(Caller)
    \/ ClientUpdateJob
    \/ ClientRequeueJob
    \/ ClientFinalizeJob

StoreSpec == Init /\ [][StoreNext]_vars

\* ---- one job driven by a test with arguments of its own --------------------

\* Each test of tests/state.test.ts creates one job and calls the exported
\* operations on it; here the calls come in any order and their arguments range
\* over the cases the operations tell apart.  The history records each call's
\* arguments.

\* delayMs of requeueJob: absent, negative, zero, positive
TestDelays == {Null, Some(-1), Some(0), Some(1)}

\* errorMessage of requeueJob: absent, empty, a message
TestMessages == {Null, Some(""), Some("boom")}

\* (delayMs, errorMessage) of requeueJob: every delay with a message, every message
\* with a positive delay
TestRequeueArgs ==
    {<<d, Some("boom")>> : d \in TestDelays} \cup {<<Some(1), m>> : m \in TestMessages}

\* patches of updateJob: none of the keys, a delay, the delay cleared, a status
TestUpdatePatches ==
    {NoPatch,
     [NoPatch EXCEPT !.availableAt = Some(Some(now))],
     [NoPatch EXCEPT !.availableAt = Some(Null)],
     [NoPatch EXCEPT !.status = Some("processing")]}

\* patches of finalizeJob: the test's (tests/state.test.ts:73) and the pool's
TestFinalizePatches ==
    {[NoPatch EXCEPT !.status = Some("failed"), !.errorMessage = Some(Some("boom"))],
     FailedPatch("boom"),
     CompletedPatch}

\* ids the test passes: those of the jobs there are, and one of no job
TestIds == 1..(Len(jobs) + 1)

\* createJob at the start of the test
TestCreateJob == jobs = <<>> /\ CreateJob

\* updateJob(id, patch)
TestUpdateJob ==
    /\ dbLock = Null
    /\ \E id \in TestIds, patch \in TestUpdatePatches :
          /\ jobs' = UpdateJob(id, patch)
          /\ lastOp' = Op("updateJob", id, patch)
                        @@ [id |-> id, patch |-> patch, result |-> GetJob(id)']
    /\ UNCHANGED <<disk, proc, hist, now, dbLock, pc, nowMs, row, job>>
    /\ UNCHANGED loopVars

\* requeueJob(id, delayMs, errorMessage)
TestRequeueJob ==
    /\ dbLock = Null
    /\ \E id \in TestIds, args \in TestRequeueArgs :
          LET delayMs == args[1]
              errorMessage == args[2]
          IN
          /\ jobs' = UpdateJob(id, RequeuePatch(delayMs, errorMessage))
          /\ lastOp' = Op("requeueJob", id, RequeuePatch(delayMs, errorMessage))
                        @@ [id |-> id, delayMs |-> delayMs, errorMessage |-> errorMessage,
                            result |-> GetJob(id)']
    /\ UNCHANGED <<disk, proc, hist, now, dbLock, pc, nowMs, row, job>>
    /\ UNCHANGED loopVars

\* finalizeJob(id, statusPatch)
TestFinalizeJob ==
    /\ dbLock = Null
    /\ \E id \in TestIds, patch \in TestFinalizePatches :
          /\ jobs' = UpdateJob(id, patch)
          /\ lastOp' = Op("finalizeJob", id, patch)
                        @@ [id |-> id, patch |-> patch, result |-> GetJob(id)']
    /\ UNCHANGED <<disk, proc, hist, now, dbLock, pc, nowMs, row, job>>
    /\ UNCHANGED loopVars

\* takeNextQueuedJob, called while the job has attempts left to count
TestTakeBegin ==
    /\ \A j \in DOMAIN jobs : jobs[j].attempts < MaxAttempts
    /\ TakeBegin(Caller)

TestNext ==
    \/ Tick
    \/ TestCreateJob
    \/ TestTakeBegin
    \/ TakeSelect(Caller)
    \/ TakeUpdate(Caller)
    \/ ClaimAgain(Caller)
    \/ Abandon(Caller)
    \/ TestUpdateJob
    \/ TestRequeueJob
    \/ TestFinalizeJob

TestSpec == Init /\ [][TestNext]_vars

\* ---- one loop retrying one job, under every configuration -------------------

\* loadConfig: workerRetryBaseMs and downloadTimeoutMs are at least their floor
\* (one model unit), workerMaxRetries is at least 0
RetryConfigs ==
    {[DefaultConfig EXCEPT !.workerRetryBaseMs = b, !.downloadTimeoutMs = t,
                           !.workerMaxRetries = r] :
        b \in 1..MaxBaseMs, t \in 1..MaxTimeoutMs, r \in 0..MaxRetryLimit}

RetryInit == \E c \in RetryConfigs : InitWith(c)

\* time passes until a delayed job is due
Elapse ==
    /\ \E j \in DOMAIN jobs :
          /\ jobs[j].status = "queued"
          /\ jobs[j].availableAt # Null
          /\ Val(jobs[j].availableAt) > now
          /\ now' = Val(jobs[j].availableAt)
    /\ UNCHANGED <<disk, proc, hist, jobs, dbLock, pc, nowMs, row, job, lastOp>>
    /\ UNCHANGED loopVars

RetryNext ==
    \/ Elapse
    \/ TestCreateJob
    \/ TakeBegin(Caller)
    \/ TakeSelect(Caller)
    \/ TakeUpdate(Caller)
    \/ ClaimAgain(Caller)
    \/ Complete(Caller)
    \/ ProcessFail(Caller)
    \/ Requeue(Caller)
    \/ FinalizeFailed(Caller)

RetrySpec == RetryInit /\ [][RetryNext]_vars

\* ---- one loop downloading the remote source of one job -----------------------

\* messages of the errors downloadRemote and streamResponseToFile throw
HttpError == "Failed to download source: HTTP"
UnsupportedType == "Unsupported content type"
TooLarge == "Remote file exceeds configured size limit"
LimitExceeded == "Download exceeded configured limit"
TimedOut == "Download timed out"

\* lengths of a response body, and of the content-length a response declares
BodyLengths == 0..(DownloadMaxBytes + 2)

\* values of the content-type header, each a string cut into pieces: none (the
\* header is missing, contentType is ''), video/mp4, AUDIO/mpeg,
\* application/octet-stream; charset=binary, and text/html
ContentTypes ==
    {<<>>,
     <<"video", "/", "mp4">>,
     <<"AUDIO", "/", "mpeg">>,
     <<"application", "/", "octet-stream", "; charset=binary">>,
     <<"text", "/", "html">>}

\* contentType.toLowerCase(), and the i flag of the two patterns
ToLowerCase(s) == [i \in DOMAIN s |-> IF s[i] = "AUDIO" THEN "audio" ELSE s[i]]

\* s.startsWith(prefix); rule.test(s) for a pattern anchored with ^
StartsWith(s, prefix) ==
    /\ Len(s) >= Len(prefix)
    /\ SubSeq(s, 1, Len(prefix)) = prefix

\* /^video\//i, /^audio\//i and 'application/octet-stream'
ALLOWED_REMOTE_TYPES ==
    {<<"video", "/">>, <<"audio", "/">>, <<"application", "/", "octet-stream">>}

\* if (!contentType) return true; otherwise some rule matches
MatchesAllowedType(contentType) ==
    IF contentType = <<>> THEN TRUE
    ELSE \E rule \in ALLOWED_REMOTE_TYPES : StartsWith(ToLowerCase(contentType), rule)

\* what a server may answer: a status that is ok or not, a content type (or none),
\* a content-length (or none) and a body of any length, whatever the content-length
\* says
Responses ==
    [ok : BOOLEAN, contentType : ContentTypes,
     declared : {Null} \cup {Some(n) : n \in BodyLengths},
     left : BodyLengths]

\* variant: the declared length is not looked at
OversizeIgnored(declared) == FALSE

\* Number.isFinite(contentLength) && contentLength > config.downloadMaxBytes
Oversize(declared) == declared # Null /\ Val(declared) > config.downloadMaxBytes

\* variant: one byte more gets through
OverLimitOffByOne(total) == total > config.downloadMaxBytes + 1

\* createLimiter: total > maxBytes
OverLimit(total) == total > config.downloadMaxBytes

\* the error with this message is thrown out of processJob into handleJob's catch
Throw(w, message) ==
    /\ pc' = [pc EXCEPT ![w] = "catch"]
    /\ error' = [error EXCEPT ![w] = Some(message)]
    /\ dl' = [dl EXCEPT ![w] = NoDownload]

\* const response = await fetch(job.sourceUri, ...): the response arrives
Fetch(w) ==
    /\ pc[w] = "process"
    /\ dl[w].phase = "none"
    /\ \E r \in Responses :
          dl' = [dl EXCEPT ![w] = [phase |-> "response", ok |-> r.ok, contentType |-> r.contentType,
                                   declared |-> r.declared, left |-> r.left, total |-> 0]]
    /\ UNCHANGED <<disk, proc, hist, now, jobs, dbLock, pc, nowMs, row, job, lastOp, config, idleDelay, error, files>>

\* the checks of the response, then createWriteStream(targetPath)
CheckResponse(w) ==
    /\ pc[w] = "process"
    /\ dl[w].phase = "response"
    /\ IF ~dl[w].ok THEN Throw(w, HttpError) /\ UNCHANGED files
       ELSE IF ~MatchesAllowedType(dl[w].contentType) THEN Throw(w, UnsupportedType) /\ UNCHANGED files
       ELSE IF Oversize(dl[w].declared) THEN Throw(w, TooLarge) /\ UNCHANGED files
       ELSE /\ dl' = [dl EXCEPT ![w].phase = "streaming"]
            /\ files' = [files EXCEPT ![Val(job[w]).id] = Some(0)]
            /\ UNCHANGED <<pc, error>>
    /\ UNCHANGED <<disk, proc, hist, now, jobs, dbLock, nowMs, row, job, lastOp, config, idleDelay>>

\* pipeline(source, limiter, writeStream): one chunk goes through the limiter, which
\* passes it on to the file or fails the pipeline
StreamChunk(w) ==
    /\ pc[w] = "process"
    /\ dl[w].phase = "streaming"
    /\ \E n \in 1..Min(MaxChunk, dl[w].left) :
          IF OverLimit(dl[w].total + n)
          THEN Throw(w, LimitExceeded) /\ UNCHANGED files
          ELSE /\ dl' = [dl EXCEPT ![w].total = @ + n, ![w].left = @ - n]
               /\ files' = [files EXCEPT ![Val(job[w]).id] = Some(Val(@) + n)]
               /\ UNCHANGED <<pc, error>>
    /\ UNCHANGED <<disk, proc, hist, now, jobs, dbLock, nowMs, row, job, lastOp, config, idleDelay>>

\* the body ended: the pipeline resolves and downloadRemote returns targetPath
StreamEnd(w) ==
    /\ pc[w] = "process"
    /\ dl[w].phase = "streaming"
    /\ dl[w].left = 0
    /\ dl' = [dl EXCEPT ![w].phase = "done"]
    /\ UNCHANGED <<disk, proc, hist, now, jobs, dbLock, pc, nowMs, row, job, lastOp, config, idleDelay, error, files>>

\* controller.abort() after downloadTimeoutMs, while the request or the body is pending
DownloadTimeout(w) ==
    /\ pc[w] = "process"
    /\ dl[w].phase \in {"none", "streaming"}
    /\ Throw(w, TimedOut)
    /\ UNCHANGED <<disk, proc, hist, now, jobs, dbLock, nowMs, row, job, lastOp, config, idleDelay, files>>

\* createClip succeeded on the downloaded file: finalizeJob(completed)
ClipDone(w) == dl[w].phase = "done" /\ Complete(w)

\* createClip threw on the downloaded file
ClipFail(w) == dl[w].phase = "done" /\ ProcessFail(w)

DownloadNext ==
    \/ Elapse
    \/ TestCreateJob
    \/ TakeBegin(Caller)
    \/ TakeSelect(Caller)
    \/ TakeUpdate(Caller)
    \/ ClaimAgain(Caller)
    \/ Fetch(Caller)
    \/ CheckResponse(Caller)
    \/ StreamChunk(Caller)
    \/ StreamEnd(Caller)
    \/ DownloadTimeout(Caller)
    \/ ClipDone(Caller)
    \/ ClipFail(Caller)
    \/ Requeue(Caller)
    \/ FinalizeFailed(Caller)

DownloadSpec == Init /\ [][DownloadNext]_vars

\* ---- the pool when nothing fails for good --------------------------------------

\* the steps of loop w when no store operation is refused and the loop does not die
PoolStep(w) ==
    \/ TakeBegin(w)
    \/ TakeSelect(w)
    \/ TakeUpdate(w)
    \/ ClaimAgain(w)
    \/ Complete(w)
    \/ ProcessFail(w)
    \/ Requeue(w)
    \/ FinalizeFailed(w)

\* POST /v1/jobs, for as many jobs as the pool has loops
PoolCreateJob == Len(jobs) < WorkerConcurrency /\ CreateJob

LiveNext ==
    \/ Elapse
    \/ PoolCreateJob
    \/ \E w \in Workers : TakeBegin(w)
    \/ \E w \in Workers : TakeSelect(w)
    \/ \E w \in Workers : TakeUpdate(w)
    \/ \E w \in Workers : ClaimAgain(w)
    \/ \E w \in Workers : Complete(w)
    \/ \E w \in Workers : ProcessFail(w)
    \/ \E w \in Workers : Requeue(w)
    \/ \E w \in Workers : FinalizeFailed(w)

\* time goes on until a delayed job is due; every loop gets its turn: its download
\* and clip generation return or throw, its timers fire, and a store operation that
\* has to wait for the write lock is served in the end
LiveSpec ==
    /\ Init
    /\ [][LiveNext]_vars
    /\ WF_vars(Elapse)
    /\ \A w \in Workers : SF_vars(PoolStep(w))

\* ---- the JSON store helper: withStore, loadStore, initStore ---------------------

\* the callers of the runs in which time passes and callers die
LockCallers == 1..NumLockCallers

\* positions of a caller inside acquireLock, where Date.now() - start is looked at
Waiting == {"open", "stat", "unlink"}

\* positions of a caller inside a loadStore of its own (a read without the lock)
Reading == {"rload", "rbak"}

\* positions of a caller between a successful acquireLock and its releaseLock
Holding == {"load", "loadbak", "mutate", "rename", "baktrunc", "bakwrite", "release"}

\* the states that mutations in progress are about to put in the store file: the
\* state persist is about to rename into place, the default initStore is writing
Pending(p) ==
    {p[d].state : d \in {x \in Callers : p[x].pc = "rename"}}
      \cup {DefaultValue : d \in {x \in Callers : p[x].pc \in {"initmain", "initwrite"}}}

\* history: a caller inside loadStore notes every state the store file holds in full
\* while the read runs, and every state a mutation in progress is about to put there
Track(p, h) ==
    [c \in Callers |->
        IF p[c].pc \in Reading
        THEN [p[c] EXCEPT !.seen = @ \cup {h.committed} \cup Pending(p)]
        ELSE p[c]]

\* one step of caller c: its new locals, the new files, the new history
JsonStep(c, locals, d, h) ==
    /\ disk' = d
    /\ hist' = h
    /\ proc' = Track([proc EXCEPT ![c] = locals], h)
    /\ UNCHANGED queueVars

\* withStore(filePath, defaultValue, mutator) is called: acquireLock notes start
CallWithStore(c) ==
    /\ proc[c].pc = "idle"
    /\ JsonStep(c, [NoCall EXCEPT !.pc = "open"], disk, hist)

\* fs.promises.open(lockPath, 'wx') creates the lock file; handle.write(pid)
Acquire(c) ==
    /\ proc[c].pc = "open"
    /\ disk.lock = Null
    /\ JsonStep(c, [proc[c] EXCEPT !.pc = "load", !.waited = 0],
                [disk EXCEPT !.lock = Some([owner |-> c, age |-> 0])], hist)

\* open fails with EEXIST and Date.now() - start > LOCK_TIMEOUT_MS: Timed out
\* acquiring lock is thrown
OpenTimesOut(c) ==
    /\ proc[c].pc = "open"
    /\ disk.lock # Null
    /\ proc[c].waited > LOCK_TIMEOUT_MS
    /\ JsonStep(c, NoCall, disk, hist)

\* open fails with EEXIST within the timeout: removeIfStale is called
OpenExists(c) ==
    /\ proc[c].pc = "open"
    /\ disk.lock # Null
    /\ proc[c].waited <= LOCK_TIMEOUT_MS
    /\ JsonStep(c, [proc[c] EXCEPT !.pc = "stat"], disk, hist)

\* variant: no lock file is ever taken for stale
IsStaleNever(lock) == FALSE

\* Date.now() - stats.mtimeMs > STALE_LOCK_MS
IsStale(lock) == lock.age > STALE_LOCK_MS

\* removeIfStale: fs.promises.stat(lockPath); ENOENT, or a lock that is not stale,
\* returns to acquireLock: await sleep(LOCK_RETRY_MS); continue
StatLock(c) ==
    /\ proc[c].pc = "stat"
    /\ IF disk.lock # Null /\ IsStale(Val(disk.lock))
       THEN JsonStep(c, [proc[c] EXCEPT !.pc = "unlink"], disk, hist)
       ELSE JsonStep(c, [proc[c] EXCEPT !.pc = "open"], disk, hist)

\* removeIfStale: fs.promises.unlink(lockPath).catch(() => {}) removes the file that
\* is at the path now; then await sleep(LOCK_RETRY_MS); continue
UnlinkStale(c) ==
    /\ proc[c].pc = "unlink"
    /\ JsonStep(c, [proc[c] EXCEPT !.pc = "open"], [disk EXCEPT !.lock = Null], hist)

\* where a caller goes when its loadStore has returned v: on to the mutator inside
\* withStore, back to its caller otherwise
Loaded(c, v) ==
    IF proc[c].pc \in Reading
    THEN [NoCall EXCEPT !.state = v]
    ELSE [proc[c] EXCEPT !.pc = "mutate", !.state = v]

\* loadStore: readRaw(filePath); null returns defaultValue; JSON.parse(raw)
LoadMain(c) ==
    /\ proc[c].pc \in {"load", "rload"}
    /\ IF disk.main = Absent THEN JsonStep(c, Loaded(c, DefaultValue), disk, hist)
       ELSE IF Parses(disk.main) THEN JsonStep(c, Loaded(c, disk.main), disk, hist)
       ELSE JsonStep(c, [proc[c] EXCEPT !.pc = IF @ = "load" THEN "loadbak" ELSE "rbak"],
                     disk, hist)

\* loadStore's catch: readRaw of the backup, JSON.parse(backupRaw), else defaultValue
LoadBackup(c) ==
    /\ proc[c].pc \in {"loadbak", "rbak"}
    /\ JsonStep(c, Loaded(c, IF Parses(disk.bak) THEN disk.bak ELSE DefaultValue),
                disk, hist)

\* loadStore throws inside withStore (readRaw rethrows what is not ENOENT): finally
LoadThrows(c) ==
    /\ proc[c].pc = "load"
    /\ JsonStep(c, [NoCall EXCEPT !.pc = "release", !.threw = TRUE], disk, hist)

\* const result = await mutator(state): the mutator changes the state
Mutate(c) ==
    /\ proc[c].pc = "mutate"
    /\ proc[c].state < MaxVersion
    /\ JsonStep(c, [proc[c] EXCEPT !.pc = "rename", !.state = @ + 1], disk, hist)

\* const result = await mutator(state): the mutator returns without a change (as
\* updateJob's does for an id the store does not hold)
MutateNone(c) ==
    /\ proc[c].pc = "mutate"
    /\ JsonStep(c, [proc[c] EXCEPT !.pc = "rename"], disk, hist)

\* variant: the state is persisted although the mutator threw
MutatorThrowsThenPersists(c) ==
    /\ proc[c].pc = "mutate"
    /\ JsonStep(c, [proc[c] EXCEPT !.pc = "rename", !.threw = TRUE], disk, hist)

\* the mutator throws: persist is skipped, finally runs
MutatorThrows(c) ==
    /\ proc[c].pc = "mutate"
    /\ JsonStep(c, [NoCall EXCEPT !.pc = "release", !.threw = TRUE], disk, hist)

\* persist: writeFile(tmpPath, payload) writes a file of the caller's own that
\* nobody reads; fs.promises.rename(tmpPath, filePath) replaces the store file at once
Rename(c) ==
    /\ proc[c].pc = "rename"
    /\ JsonStep(c, [proc[c] EXCEPT !.pc = "baktrunc"],
                [disk EXCEPT !.main = proc[c].state],
                [hist EXCEPT !.committed = proc[c].state])

\* persist: writeFile(backup, payload) opens the backup, which truncates it
BackupTruncate(c) ==
    /\ proc[c].pc = "baktrunc"
    /\ JsonStep(c, [proc[c] EXCEPT !.pc = "bakwrite"], [disk EXCEPT !.bak = Torn], hist)

\* persist: writeFile(backup, payload) has written the payload
BackupWrite(c) ==
    /\ proc[c].pc = "bakwrite"
    /\ JsonStep(c, [NoCall EXCEPT !.pc = "release"],
                [disk EXCEPT !.bak = proc[c].state],
                [hist EXCEPT !.lastDone = Some(proc[c].state)])

\* finally: releaseLock closes the handle and unlinks lockPath, whatever file is there
ReleaseLock(c) ==
    /\ proc[c].pc = "release"
    /\ JsonStep(c, NoCall, [disk EXCEPT !.lock = Null], hist)

\* loadStore(filePath, defaultValue) is called by a reader
CallLoadStore(c) ==
    /\ proc[c].pc = "idle"
    /\ JsonStep(c, [NoCall EXCEPT !.pc = "rload"], disk, hist)

\* initStore(filePath, defaultValue) is called
CallInitStore(c) ==
    /\ proc[c].pc = "idle"
    /\ JsonStep(c, [NoCall EXCEPT !.pc = "access"], disk, hist)

\* initStore: fs.promises.access(filePath, F_OK); ENOENT leads to the two writes
Access(c) ==
    /\ proc[c].pc = "access"
    /\ IF disk.main = Absent
       THEN JsonStep(c, [proc[c] EXCEPT !.pc = "initmain"], disk, hist)
       ELSE JsonStep(c, NoCall, disk, hist)

\* initStore: writeFile(filePath, data) opens the store file, which truncates it
InitTruncate(c) ==
    /\ proc[c].pc = "initmain"
    /\ JsonStep(c, [proc[c] EXCEPT !.pc = "initwrite"], [disk EXCEPT !.main = Torn], hist)

\* initStore: writeFile(filePath, data) has written the default
InitWrite(c) ==
    /\ proc[c].pc = "initwrite"
    /\ JsonStep(c, [proc[c] EXCEPT !.pc = "initbak"],
                [disk EXCEPT !.main = DefaultValue],
                [hist EXCEPT !.committed = DefaultValue])

\* initStore: writeFile(backup, data) opens the backup, which truncates it
InitBackupTruncate(c) ==
    /\ proc[c].pc = "initbak"
    /\ JsonStep(c, [proc[c] EXCEPT !.pc = "initbakwrite"], [disk EXCEPT !.bak = Torn], hist)

\* initStore: writeFile(backup, data) has written the default
InitBackupWrite(c) ==
    /\ proc[c].pc = "initbakwrite"
    /\ JsonStep(c, NoCall, [disk EXCEPT !.bak = DefaultValue], hist)

\* the process of a caller dies in the middle of a call; what it left on disk stays
Die(c) ==
    /\ proc[c].pc \notin {"idle", "dead"}
    /\ JsonStep(c, [NoCall EXCEPT !.pc = "dead"], disk, hist)

\* the store file is damaged from outside (its text no longer parses)
Corrupt ==
    /\ Parses(disk.main)
    /\ disk' = [disk EXCEPT !.main = Torn]
    /\ proc' = Track(proc, hist)
    /\ UNCHANGED <<hist, queueVars>>

\* one unit of time passes: the lock file gets older, callers in acquireLock have
\* waited longer; ages beyond the thresholds they are compared with are not told apart
Pass ==
    /\ disk' = [disk EXCEPT !.lock =
                   IF @ = Null THEN @
                   ELSE Some([Val(@) EXCEPT !.age = Min(@ + 1, STALE_LOCK_MS + 1)])]
    /\ proc' = [c \in Callers |->
                   IF proc[c].pc \in Waiting /\ c \in LockCallers
                   THEN [proc[c] EXCEPT !.waited = Min(@ + 1, LOCK_TIMEOUT_MS + 1)]
                   ELSE proc[c]]
    /\ <<disk, proc>>' # <<disk, proc>>
    /\ UNCHANGED <<hist, queueVars>>

\* callers of withStore on one store file, with time passing and callers dying
LockNext ==
    \/ Pass
    \/ \E c \in LockCallers :
          \/ CallWithStore(c)
          \/ Acquire(c)
          \/ OpenExists(c)
          \/ OpenTimesOut(c)
          \/ StatLock(c)
          \/ UnlinkStale(c)
          \/ LoadMain(c)
          \/ Mutate(c)
          \/ MutateNone(c)
          \/ Rename(c)
          \/ BackupTruncate(c)
          \/ BackupWrite(c)
          \/ ReleaseLock(c)
          \/ Die(c)

LockSpec == Init /\ [][LockNext]_vars

\* a holder of the lock died inside withStore: its lock file, just created, is left
StaleInit == InitOn(DefaultConfig, [NoFiles EXCEPT !.lock = Some([owner |-> 0, age |-> 0])])

\* callers of withStore that call again whenever a call has returned or thrown; the
\* lock is taken and given up the same way whatever the mutators do to the state, and
\* the mutators of these runs leave it as it was loaded
StaleNext ==
    \/ Pass
    \/ \E c \in LockCallers :
          \/ CallWithStore(c)
          \/ Acquire(c)
          \/ OpenExists(c)
          \/ OpenTimesOut(c)
          \/ StatLock(c)
          \/ UnlinkStale(c)
          \/ LoadMain(c)
          \/ MutateNone(c)
          \/ Rename(c)
          \/ BackupTruncate(c)
          \/ BackupWrite(c)
          \/ ReleaseLock(c)

StaleSpec == StaleInit /\ [][StaleNext]_vars

\* the steps of caller c in these runs
StaleStep(c) ==
    \/ CallWithStore(c)
    \/ Acquire(c)
    \/ OpenExists(c)
    \/ OpenTimesOut(c)
    \/ StatLock(c)
    \/ UnlinkStale(c)
    \/ LoadMain(c)
    \/ MutateNone(c)
    \/ Rename(c)
    \/ BackupTruncate(c)
    \/ BackupWrite(c)
    \/ ReleaseLock(c)

\* time goes on, every pending step of a caller is run by its event loop in the
\* end, and every caller calls withStore again after a call has ended; a caller
\* that calls again and again does not find the lock timeout elapsed before its
\* first look at the lock file every time
StaleFairSpec ==
    /\ StaleSpec
    /\ WF_vars(Pass)
    /\ \A c \in LockCallers : WF_vars(StaleStep(c)) /\ SF_vars(OpenExists(c))

\* callers of withStore whose load or mutator may throw
ThrowNext ==
    \E c \in LockCallers :
       \/ CallWithStore(c)
       \/ Acquire(c)
       \/ OpenExists(c)
       \/ StatLock(c)
       \/ LoadMain(c)
       \/ LoadThrows(c)
       \/ Mutate(c)
       \/ MutateNone(c)
       \/ MutatorThrows(c)
       \/ Rename(c)
       \/ BackupTruncate(c)
       \/ BackupWrite(c)
       \/ ReleaseLock(c)

ThrowSpec == Init /\ [][ThrowNext]_vars

\* callers of withStore, loadStore and initStore on one store file
FileNext ==
    \E c \in Callers :
       \/ CallWithStore(c)
       \/ CallLoadStore(c)
       \/ CallInitStore(c)
       \/ Acquire(c)
       \/ OpenExists(c)
       \/ StatLock(c)
       \/ LoadMain(c)
       \/ LoadBackup(c)
       \/ Mutate(c)
       \/ MutateNone(c)
       \/ Rename(c)
       \/ BackupTruncate(c)
       \/ BackupWrite(c)
       \/ ReleaseLock(c)
       \/ Access(c)
       \/ InitTruncate(c)
       \/ InitWrite(c)
       \/ InitBackupTruncate(c)
       \/ InitBackupWrite(c)

FileSpec == Init /\ [][FileNext]_vars

\* the same callers, with a store file that may be damaged from outside
BackupNext == FileNext \/ Corrupt

BackupSpec == Init /\ [][BackupNext]_vars

\* ---- jobs of several tenants, created and listed by direct callers ----------

\* tenantId of a jobInput: absent, an existing tenant, or an id of no tenant
TenantArgs == {Null} \cup {Some(t) : t \in 1..(NumTenants + 1)}

\* limit of listJobs (tests/state.test.ts:48 passes more than the jobs there are)
Limits == 0..(NumJobs + 1)

\* the jobInput of the test (tests/state.test.ts:36-42), for any tenantId
TenantInputs == [tenantId : TenantArgs, variantCount : {Missing}, metadata : {Null}]

\* createJob(filePath, jobInput) by a direct caller
TenantCreateJob == \E input \in TenantInputs : CreateJobWith(input)

\* takeNextQueuedJob by a direct caller, while a job is left to claim
TenantTakeBegin ==
    /\ \E j \in DOMAIN jobs : jobs[j].status = "queued"
    /\ TakeBegin(Caller)

TenantNext ==
    \/ Tick
    \/ TenantCreateJob
    \/ TenantTakeBegin
    \/ TakeSelect(Caller)
    \/ TakeUpdate(Caller)
    \/ Abandon(Caller)

TenantSpec == Init /\ [][TenantNext]_vars

\* ---- variantCount as direct callers pass it ----------------------------------

\* variantCount of a jobInput or of a patch: absent, not a number, below the
\* range, inside it, above it
VariantInputs == {Missing, NotANumber, Num(0), Num(2), Num(6)}

\* createJob(filePath, {..., variantCount})
VariantCreateJob ==
    \E value \in VariantInputs :
        CreateJobWith([tenantId |-> Some(1), variantCount |-> value, metadata |-> Null])

\* updateJob(id, {variantCount})
VariantUpdateJob ==
    /\ dbLock = Null
    /\ \E id \in JobIds, value \in VariantInputs :
          LET patch == [NoPatch EXCEPT !.variantCount = Some(value)]
          IN /\ jobs' = UpdateJob(id, patch)
             /\ lastOp' = Op("updateJob", id, patch)
    /\ UNCHANGED <<disk, proc, hist, now, dbLock, pc, nowMs, row, job>>
    /\ UNCHANGED loopVars

VariantNext ==
    \/ Tick
    \/ VariantCreateJob
    \/ VariantUpdateJob

VariantSpec == Init /\ [][VariantNext]_vars

\* ======================= properties ========================================

Held(w) == job[w] # Null
HeldBy(w) == Val(job[w])

\* w's call of takeNextQueuedJob ends in this step and gives back a job
TakeReturns(w) == pc[w] = "update" /\ pc'[w] = "process"

\* w's SELECT runs in this step
Selects(w) == pc[w] = "select" /\ pc'[w] # "select"

C2_OneHolder ==
    /\ \A w, v \in Workers :
          (w # v /\ Held(w) /\ Held(v)) => HeldBy(w).id # HeldBy(v).id
    /\ \A w \in Workers :
          Held(w) =>
              /\ jobs[HeldBy(w).id].status = "processing"
              /\ jobs[HeldBy(w).id].attempts = HeldBy(w).attempts

\* both loops hold a job at once, a retried one among them
C2_Witness ==
    /\ \A w \in Workers : Held(w) /\ pc[w] = "process"
    /\ \E w \in Workers : HeldBy(w).attempts > 1

\* the step is an updateJob or finalizeJob whose patch names attempts
PatchesAttempts == lastOp'.attempts /\ lastOp'.op \in {"updateJob", "finalizeJob"}

\* C3 as stated: attempts starts at 0, increases by exactly 1 on each successful
\* claim and never decreases under any sequence of store operations.
C3_Original ==
    [][/\ \A j \in DOMAIN jobs' \ DOMAIN jobs : jobs'[j].attempts = 0
       /\ \A j \in DOMAIN jobs : jobs'[j].attempts >= jobs[j].attempts
       /\ \A w \in Workers :
             TakeReturns(w) =>
                 jobs'[Val(row[w]).id].attempts = jobs[Val(row[w]).id].attempts + 1]_vars

\* C3 amended: the same, for every step except an updateJob or finalizeJob whose
\* patch names attempts; and only a successful claim changes attempts, by exactly 1,
\* the returned copy carrying the new number.
C3_Amended ==
    [][/\ \A j \in DOMAIN jobs' \ DOMAIN jobs : jobs'[j].attempts = 0
       /\ ~PatchesAttempts =>
             \A j \in DOMAIN jobs :
                 \/ jobs'[j].attempts = jobs[j].attempts
                 \/ /\ jobs'[j].attempts = jobs[j].attempts + 1
                    /\ \E w \in Workers :
                          /\ TakeReturns(w)
                          /\ HeldBy(w)' = [id |-> j, attempts |-> jobs'[j].attempts]
       /\ \A w \in Workers :
             TakeReturns(w) =>
                 jobs'[Val(row[w]).id].attempts = jobs[Val(row[w]).id].attempts + 1]_vars

\* a job claimed, requeued and claimed again: attempts 2
C3_Witness ==
    /\ lastOp.op = "take"
    /\ \E j \in DOMAIN jobs : jobs[j].attempts = 2 /\ jobs[j].status = "processing"

\* the row is not visible to claims at time t: not queued, or delayed beyond t
Invisible(r, t) ==
    r.status # "queued" \/ (r.availableAt # Null /\ Val(r.availableAt) > t)

\* C4: takeNextQueuedJob never gives back a job whose availableAt is later than
\* the current time, and gives back null when every job is delayed into the
\* future or not queued.
C4_DelayEnforced ==
    [][\A w \in Workers :
          Selects(w) =>
              /\ pc'[w] = "update" =>
                    LET r == jobs[Val(row'[w]).id]
                    IN r.availableAt = Null \/ Val(r.availableAt) <= now
              /\ (\A j \in DOMAIN jobs : Invisible(jobs[j], now)) =>
                    /\ pc'[w] = "sleep"
                    /\ jobs' = jobs]_vars

\* a claim issued while a requeued job was still delayed got null
C4_Witness ==
    /\ lastOp.op = "takeNull"
    /\ \E j \in DOMAIN jobs :
          /\ jobs[j].status = "queued"
          /\ jobs[j].attempts >= 1
          /\ jobs[j].errorMessage # Null
          /\ jobs[j].availableAt # Null /\ Val(jobs[j].availableAt) > now

\* the row is queued, was claimed and requeued before, and its delay has elapsed at t
RequeuedAndDue(r, t) ==
    /\ r.status = "queued"
    /\ r.attempts >= 1
    /\ r.availableAt # Null /\ Val(r.availableAt) <= t

\* C5 as stated: once the delay of a requeued job has elapsed, a claim issued
\* with no other eligible job created at or before it gives back that job, with
\* status processing and attempts one greater than on its previous claim.
C5_RequeuedJobReturned ==
    [][\A w \in Workers :
          /\ Selects(w) =>
                \A j \in DOMAIN jobs :
                    ( /\ RequeuedAndDue(jobs[j], nowMs[w])
                      /\ \A k \in DOMAIN jobs \ {j} :
                            ~Invisible(jobs[k], nowMs[w]) =>
                                jobs[k].createdAt > jobs[j].createdAt )
                    => (pc'[w] = "update" /\ Val(row'[w]).id = j)
          /\ TakeReturns(w) =>
                /\ jobs'[Val(row[w]).id].status = "processing"
                /\ HeldBy(w)'.attempts = jobs[Val(row[w]).id].attempts + 1]_vars

\* a job's failure is handled by w in this step
HandlesFailure(w) == pc[w] = "catch" /\ pc'[w] = "claim"

\* C6: under the worker pool attempts never exceeds workerMaxRetries + 1; a failed
\* attempt numbered below workerMaxRetries + 1 requeues the job and a failed
\* attempt numbered workerMaxRetries + 1 finalizes it as failed.
C6_AtMostMaxRetriesPlusOne ==
    [][/\ \A j \in DOMAIN jobs' : jobs'[j].attempts <= WorkerMaxRetries + 1
       /\ \A w \in Workers :
             HandlesFailure(w) =>
                 LET h == HeldBy(w)
                 IN IF h.attempts < WorkerMaxRetries + 1
                    THEN /\ jobs'[h.id].status = "queued"
                         /\ jobs'[h.id].availableAt # Null
                         /\ jobs'[h.id].attempts = h.attempts
                    ELSE /\ h.attempts = WorkerMaxRetries + 1
                         /\ jobs'[h.id].status = "failed"]_vars

\* a job failed for good on its last allowed attempt
C6_Witness ==
    /\ lastOp.op = "finalizeJob"
    /\ \E j \in DOMAIN jobs :
          jobs[j].status = "failed" /\ jobs[j].attempts = WorkerMaxRetries + 1

Terminal == {"completed", "failed"}

\* C8: a job whose status is completed or failed is never selected or returned by
\* takeNextQueuedJob, whatever its availableAt; when every job in the store is
\* completed or failed the call gives back null and changes nothing.
C8_TerminalNeverClaimed ==
    [][\A w \in Workers :
          /\ Selects(w) =>
                /\ pc'[w] = "update" => jobs[Val(row'[w]).id].status \notin Terminal
                /\ (\A j \in DOMAIN jobs : jobs[j].status \in Terminal) =>
                      (pc'[w] = "sleep" /\ jobs' = jobs)
          /\ TakeReturns(w) => jobs[Val(row[w]).id].status \notin Terminal]_vars

\* the only job was finalized as failed while its availableAt was set and due, and
\* the next claim got null
C8_Witness ==
    /\ lastOp.op = "takeNull"
    /\ Len(jobs) = 1
    /\ jobs[1].status = "failed"
    /\ jobs[1].availableAt # Null /\ Val(jobs[1].availableAt) <= now

\* the lifecycle graph
Lifecycle ==
    {<<"queued", "processing">>, <<"processing", "completed">>,
     <<"processing", "failed">>, <<"processing", "queued">>}

\* C9: under the worker pool a job is created queued, its status changes only
\* along the lifecycle graph, completed and failed are never left, and no job is
\* deleted.
C9_LifecycleOnly ==
    [][/\ DOMAIN jobs \subseteq DOMAIN jobs'
       /\ \A j \in DOMAIN jobs' \ DOMAIN jobs : jobs'[j].status = "queued"
       /\ \A j \in DOMAIN jobs :
             \/ jobs'[j].status = jobs[j].status
             \/ <<jobs[j].status, jobs'[j].status>> \in Lifecycle]_vars

\* one job ended completed and another failed
C9_Witness ==
    \E j, k \in DOMAIN jobs :
        jobs[j].status = "completed" /\ jobs[k].status = "failed"

ProcessingHasNoDelay ==
    \A j \in DOMAIN jobs : jobs[j].status = "processing" => jobs[j].availableAt = Null

\* the step is an updateJob or finalizeJob whose patch sets status to processing
\* or sets a non-null availableAt
PatchesDelayOrProcessing ==
    /\ lastOp'.op \in {"updateJob", "finalizeJob"}
    /\ "patch" \in DOMAIN lastOp'
    /\ \/ lastOp'.patch.status = Some("processing")
       \/ /\ lastOp'.patch.availableAt # <<>>
          /\ Val(lastOp'.patch.availableAt) # Null

\* C11 as stated: in every reachable state of the store a job whose status is
\* processing has availableAt = null.
C11_Original == ProcessingHasNoDelay

\* C11 amended: every operation of the store keeps "a processing job has
\* availableAt = null", except an updateJob or finalizeJob whose patch sets status
\* to processing or sets a non-null availableAt; a claim leaves the job it gives
\* back with availableAt = null.
C11_Amended ==
    [][/\ (ProcessingHasNoDelay /\ ~PatchesDelayOrProcessing) => ProcessingHasNoDelay'
       /\ \A w \in Workers :
             TakeReturns(w) =>
                 /\ jobs'[Val(row[w]).id].status = "processing"
                 /\ jobs'[Val(row[w]).id].availableAt = Null]_vars

\* a job requeued with a delay was claimed once the delay had passed
C11_Witness ==
    /\ lastOp.op = "take"
    /\ ProcessingHasNoDelay
    /\ \E j \in DOMAIN jobs :
          /\ jobs[j].status = "processing"
          /\ jobs[j].attempts >= 2
          /\ jobs[j].errorMessage # Null
          /\ now > jobs[j].createdAt

\* C12 as stated: when several jobs are eligible the claim takes the one with
\* the earliest createdAt: no eligible job was created before the selected one.
C12_EarliestCreatedFirst ==
    [][\A w \in Workers :
          (Selects(w) /\ pc'[w] = "update") =>
              \A k \in DOMAIN jobs :
                  IsReady(jobs[k], nowMs[w]) =>
                      jobs[Val(row'[w]).id].createdAt <= jobs[k].createdAt]_vars

\* C16: createJob persists a job with status queued, attempts 0, errorMessage
\* null, no output and availableAt equal to its creation time, leaving the other
\* jobs as they were; the new job is eligible for a claim at once.
C16_CreatedQueuedAndEligible ==
    [][\A j \in DOMAIN jobs' \ DOMAIN jobs :
          /\ lastOp'.op = "createJob"
          /\ jobs'[j].status = "queued"
          /\ jobs'[j].attempts = 0
          /\ jobs'[j].errorMessage = Null
          /\ jobs'[j].output = Null
          /\ jobs'[j].createdAt = now
          /\ jobs'[j].availableAt = Some(jobs'[j].createdAt)
          /\ IsReady(jobs'[j], now)
          /\ \A k \in DOMAIN jobs : jobs'[k] = jobs[k]]_vars

\* a job was claimed for the first time in the millisecond of its creation
C16_Witness ==
    /\ lastOp.op = "take"
    /\ \E j \in DOMAIN jobs :
          /\ jobs[j].createdAt = now
          /\ jobs[j].status = "processing"
          /\ jobs[j].attempts = 1

\* the step is the call the history records (the clock and the caller stand still)
IsCall(name) == lastOp'.op = name /\ "id" \in DOMAIN lastOp' /\ now' = now /\ pc' = pc

\* C19: requeueJob(id, delayMs, errorMessage) on an existing job sets status
\* queued, availableAt = now + max(0, delayMs) (now when the delay is negative or
\* absent, so the job is eligible at once), records errorMessage (null when absent
\* or empty), sets updatedAt to the time of the call, and leaves attempts, output,
\* metadata and every other modelled field of the job, and every other job, as
\* they were.
C19_RequeueFrame ==
    [][IsCall("requeueJob") =>
          LET c == lastOp'
              delay == IF c.delayMs = Null \/ Val(c.delayMs) < 0 THEN 0 ELSE Val(c.delayMs)
              message == IF c.errorMessage \in {Null, Some("")} THEN Null ELSE c.errorMessage
          IN IF c.id \in DOMAIN jobs
             THEN /\ jobs' = [jobs EXCEPT ![c.id] =
                                 [@ EXCEPT !.status = "queued",
                                           !.availableAt = Some(now + delay),
                                           !.errorMessage = message,
                                           !.updatedAt = now]]
                  /\ delay = 0 => IsReady(jobs'[c.id], now)
             ELSE jobs' = jobs]_vars

\* a completed job was requeued with a negative delay: eligible at once, its
\* attempts, output and metadata kept
C19_Witness ==
    /\ lastOp.op = "requeueJob"
    /\ "delayMs" \in DOMAIN lastOp
    /\ lastOp.delayMs = Some(-1)
    /\ lastOp.id \in DOMAIN jobs
    /\ LET r == jobs[lastOp.id]
       IN /\ r.status = "queued"
          /\ r.availableAt = Some(now)
          /\ r.attempts >= 1
          /\ r.output # Null
          /\ r.metadata = "timeline"

\* C20 as stated: finalizeJob(id, patch) with patch.status completed or failed
\* leaves the job with availableAt = null, for every patch and every prior state.
C20_FinalizeClearsAvailableAt ==
    [][(IsCall("finalizeJob") /\ lastOp'.id \in DOMAIN jobs) =>
          (Val(lastOp'.patch.status) \in Terminal =>
              jobs'[lastOp'.id].availableAt = Null)]_vars

\* ---- jobs of several tenants (TenantSpec) ----------------------------------

\* the ids a list holds
Listed(l) == {l[i] : i \in DOMAIN l}

\* C13: createJob calls running at the same time each add a job of their own
\* under a new id and none replaces or drops a job persisted before; listJobs with
\* a limit of at least the number of the tenant's jobs returns exactly those jobs.
C13_NoCreationLost ==
    [][/\ (lastOp'.op = "createJob" /\ now' = now /\ pc' = pc /\ vars' # vars) =>
             Len(jobs') = Len(jobs) + 1
       /\ DOMAIN jobs \subseteq DOMAIN jobs'
       /\ \A k \in DOMAIN jobs :
             /\ jobs'[k].tenantId = jobs[k].tenantId
             /\ jobs'[k].createdAt = jobs[k].createdAt
       /\ \A t \in Tenants :
             \A limit \in Limits :
                 LET l == ListJobs(Some(t), limit)'
                     m == {j \in DOMAIN jobs' : jobs'[j].tenantId = Some(t)}
                 IN limit >= Cardinality(m) =>
                       (Len(l) = Cardinality(m) /\ Listed(l) = m)]_vars

\* every job was created in the same millisecond for one tenant and all are listed
C13_Witness ==
    /\ lastOp.op = "createJob"
    /\ Len(jobs) = NumJobs
    /\ \A j \in DOMAIN jobs : jobs[j].tenantId = Some(1) /\ jobs[j].createdAt = now
    /\ Len(ListJobs(Some(1), NumJobs)) = NumJobs

\* C14: listJobs(tenantId, limit) returns only jobs whose tenantId equals the
\* argument, each at most once, and at most limit of them.
C14_OwnTenantAtMostLimit ==
    \A tenantId \in TenantArgs :
        \A limit \in Limits :
            LET l == ListJobs(tenantId, limit)
            IN /\ Len(l) <= limit
               /\ \A i \in DOMAIN l :
                     /\ l[i] \in DOMAIN jobs
                     /\ jobs[l[i]].tenantId = tenantId
               /\ \A i, k \in DOMAIN l : i # k => l[i] # l[k]

\* two tenants have jobs; the list of one leaves out the other's, and a limit below
\* the number of jobs cuts the list
C14_Witness ==
    /\ \E j, k \in DOMAIN jobs :
          jobs[j].tenantId = Some(1) /\ jobs[k].tenantId = Some(2)
    /\ Len(ListJobs(Some(1), NumJobs)) < Len(jobs)
    /\ ListJobs(Some(1), 0) = <<>>

C17_VariantCountInRange ==
    /\ \A j \in DOMAIN jobs : jobs[j].variantCount \in 1..5
    /\ \A value \in VariantInputs :
          LET n == NormalizeVariantCount(value)
          IN /\ n \in 1..5
             /\ (value.kind = "number" /\ value.n \in 1..5) => n = value.n
             /\ (value.kind = "number" /\ value.n < 1) => n = 1
             /\ (value.kind = "number" /\ value.n > 5) => n = 5

\* a job patched down to the lower end beside a job at the upper end
C17_Witness ==
    /\ lastOp.op = "updateJob"
    /\ \E j, k \in DOMAIN jobs : jobs[j].variantCount = 1 /\ jobs[k].variantCount = 5

\* the tenantId names a row of the tenants table
TenantExists(tenantId) == tenantId # Null /\ Val(tenantId) \in Tenants

\* C18: createJob with a missing tenantId or one that references no existing
\* tenant ends in an error and persists nothing; every persisted job, hence
\* every job a claim can select, belongs to an existing tenant.
C18_UnknownTenantRejected ==
    [][/\ \A j \in DOMAIN jobs' \ DOMAIN jobs :
             /\ lastOp'.op = "createJob"
             /\ TenantExists(jobs'[j].tenantId)
       /\ lastOp'.op = "createJobError" =>
             /\ ~TenantExists(lastOp'.tenantId)
             /\ jobs' = jobs
       /\ \A j \in DOMAIN jobs' : TenantExists(jobs'[j].tenantId)
       /\ \A w \in Workers :
             /\ row'[w] # Null => TenantExists(jobs'[Val(row'[w]).id].tenantId)
             /\ Held(w)' => TenantExists(jobs'[HeldBy(w)'.id].tenantId)]_vars

\* a createJob for a tenant that does not exist failed while jobs of existing
\* tenants were queued
C18_Witness ==
    /\ lastOp.op = "createJobError"
    /\ lastOp.tenantId = Some(NumTenants + 1)
    /\ \E j \in DOMAIN jobs : jobs[j].status = "processing"
    /\ \A j \in DOMAIN jobs : TenantExists(jobs[j].tenantId)


\* ---- updateJob and its callers (TestSpec) -----------------------------------

\* C21 as stated: updateJob(id, patch) on an existing job sets updatedAt to the
\* time of the call, for every patch, the empty one included.
C21_UpdateTouchesUpdatedAt ==
    [][(IsCall("updateJob") /\ lastOp'.id \in DOMAIN jobs) =>
          jobs'[lastOp'.id].updatedAt = now]_vars

\* the step is a call of one of the three operations built on updateJob
IsUpdateCall == \E name \in {"updateJob", "requeueJob", "finalizeJob"} : IsCall(name)

\* C22: updateJob, requeueJob and finalizeJob called with an id of no job give
\* back null and leave every persisted job as it was (no job is added either);
\* with the id of a job they give back that job.
C22_UnknownIdIsNoOp ==
    [][IsUpdateCall =>
          IF lastOp'.id \in DOMAIN jobs
          THEN lastOp'.result = Some(lastOp'.id)
          ELSE lastOp'.result = Null /\ jobs' = jobs]_vars

\* a job requeued into the future is untouched by a finalizeJob under another id
C22_Witness ==
    /\ lastOp.op = "finalizeJob"
    /\ "result" \in DOMAIN lastOp
    /\ lastOp.id \notin DOMAIN jobs
    /\ lastOp.result = Null
    /\ Len(jobs) = 1
    /\ jobs[1].status = "queued"
    /\ jobs[1].attempts >= 1
    /\ jobs[1].availableAt # Null /\ Val(jobs[1].availableAt) > now

\* ---- the retry delay (RetrySpec) ----------------------------------------------

\* the ceiling of the retry delay: four download timeouts
Cap == config.downloadTimeoutMs * 4

\* w requeues the job it holds in this step
Requeues(w) ==
    /\ HandlesFailure(w)
    /\ lastOp'.op = "requeueJob"
    /\ jobs'[HeldBy(w).id].status = "queued"

\* the delay the job j was requeued with in this step
DelayGiven(j) == Val(jobs'[j].availableAt) - now

\* C23: for every admissible base delay and cap the retry delay is non-decreasing
\* in the attempt number and never above the cap, as a function and in the delays
\* the loop passes to requeueJob.
C23_DelayMonotoneAndCapped ==
    [][/\ \A k \in 1..MaxAttemptNo :
             /\ ComputeRetryDelay(k + 1) >= ComputeRetryDelay(k)
             /\ ComputeRetryDelay(k) <= Cap
       /\ \A w \in Workers :
             Requeues(w) =>
                 /\ DelayGiven(HeldBy(w).id) <= Cap
                 /\ \A k \in 1..(HeldBy(w).attempts - 1) :
                       DelayGiven(HeldBy(w).id) >= ComputeRetryDelay(k)]_vars

\* a job was requeued after a later attempt with the delay cut down to the cap
C23_Witness ==
    /\ lastOp.op = "requeueJob"
    /\ \E j \in DOMAIN jobs :
          /\ jobs[j].status = "queued"
          /\ jobs[j].attempts >= 2
          /\ jobs[j].availableAt = Some(now + Cap)
          /\ config.workerRetryBaseMs * Pow2(jobs[j].attempts - 1) > Cap

\* C24: the delay passed to requeueJob after the a-th failed attempt, a >= 1 the
\* attempts of the job, is min(workerRetryBaseMs * 2^(a-1), cap): the base delay
\* after the first failure unless the cap is smaller.
C24_DelayAfterAttempt ==
    [][\A w \in Workers :
          Requeues(w) =>
              LET a == jobs[HeldBy(w).id].attempts
              IN /\ a >= 1
                 /\ a = HeldBy(w).attempts
                 /\ DelayGiven(HeldBy(w).id) =
                        Min(config.workerRetryBaseMs * Pow2(a - 1), Cap)
                 /\ a = 1 => DelayGiven(HeldBy(w).id) = Min(config.workerRetryBaseMs, Cap)]_vars

\* the first failure of a job waits the base delay, the second twice as long
C24_Witness ==
    /\ lastOp.op = "requeueJob"
    /\ config.workerRetryBaseMs * 2 < Cap
    /\ \E j \in DOMAIN jobs :
          /\ jobs[j].status = "queued"
          /\ jobs[j].attempts = 2
          /\ jobs[j].availableAt = Some(now + 2 * config.workerRetryBaseMs)
          /\ jobs[j].updatedAt = now

\* ---- failures in the loop (Spec) ----------------------------------------------

\* a download or clip-generation failure of w's job is thrown in this step
ProcessingFails(w) == pc[w] = "process" /\ error'[w] = Some(ProcessError)

\* C25: a download or clip-generation failure of a claimed job is caught by the
\* loop that holds the job; when the store takes the write, the failure becomes
\* exactly one write to that job alone: requeueJob with the delay
\* computeRetryDelay(attempts) when attempts remain, finalizeJob with status failed
\* when they are exhausted, the failure's message recorded as errorMessage either
\* way, and the loop goes on to its next claim.
C25_FailureRequeuedOrFailed ==
    [][\A w \in Workers :
          /\ ProcessingFails(w) => (pc'[w] = "catch" /\ jobs' = jobs /\ job'[w] = job[w])
          /\ (HandlesFailure(w) /\ error[w] = Some(ProcessError)) =>
                LET h == HeldBy(w)
                    r == jobs'[h.id]
                IN /\ \A k \in DOMAIN jobs \ {h.id} : jobs'[k] = jobs[k]
                   /\ r.errorMessage = Some(ProcessError)
                   /\ r.attempts = h.attempts
                   /\ job'[w] = Null
                   /\ IF h.attempts < config.workerMaxRetries + 1
                      THEN /\ lastOp'.op = "requeueJob"
                           /\ r.status = "queued"
                           /\ r.availableAt = Some(now + ComputeRetryDelay(h.attempts))
                      ELSE /\ lastOp'.op = "finalizeJob"
                           /\ r.status = "failed"
                           /\ r.availableAt = Null]_vars

\* one job's failure was requeued with its message, another's ended the job with
\* it, and the loops are back at their claims
C25_Witness ==
    /\ \A w \in Workers : pc[w] = "claim" /\ error[w] = Null
    /\ \E j, k \in DOMAIN jobs :
          /\ jobs[j].status = "queued" /\ jobs[j].errorMessage = Some(ProcessError)
          /\ jobs[j].attempts >= 1
          /\ jobs[k].status = "failed" /\ jobs[k].errorMessage = Some(ProcessError)

\* C26 as stated: a store operation of a loop that fails (claim, finalize as
\* completed, requeue, finalize as failed) ends the loop, its error is never what
\* handleJob catches, and it never becomes the recorded outcome of a job.
C26_StoreErrorsPropagate ==
    [][\A w \in Workers :
          /\ (Busy(w) /\ pc[w] \in {"claim", "catch"} /\ pc'[w] # pc[w]) => pc'[w] = "crashed"
          /\ error'[w] # Some(StoreBusy)
          /\ \A j \in DOMAIN jobs' : jobs'[j].errorMessage # Some(StoreBusy)]_vars

\* ---- the idle backoff of the loops (IdleSpec) ---------------------------------

\* the base idle delay and the ceiling of the configuration
IdleBase == config.workerIdleBackoffMs
IdleCeiling ==
    IF config.pollIntervalMs >= 4 * IdleBase THEN config.pollIntervalMs ELSE 4 * IdleBase

\* w's claim ends in this step and gives back null
TakeReturnsNull(w) == pc[w] = "select" /\ pc'[w] \notin {"select", "update"}

\* C27: a loop's idle delay starts at the base idle delay, stays between the base
\* and the ceiling, is what the loop sleeps after an empty claim, is doubled (up to
\* the ceiling) by the end of that sleep and is back at the base as soon as a claim
\* returns a job; after an empty claim the loop sleeps before it claims again.
C27_IdleBackoff ==
    /\ \A w \in Workers : idleDelay[w] = IdleBase
    /\ [][\A w \in Workers :
             /\ IdleBase <= idleDelay'[w] /\ idleDelay'[w] <= IdleCeiling
             /\ TakeReturnsNull(w) => (pc'[w] = "sleep" /\ idleDelay'[w] = idleDelay[w])
             /\ (pc[w] = "sleep" /\ pc'[w] # "sleep") =>
                   /\ pc'[w] = "claim"
                   /\ idleDelay'[w] = Min(IdleCeiling, 2 * idleDelay[w])
             /\ TakeReturns(w) => idleDelay'[w] = IdleBase
             /\ (pc[w] \notin {"sleep", "update"}) => idleDelay'[w] = idleDelay[w]]_vars

\* one loop sleeps with its delay at a ceiling set by the poll interval while the
\* other, given a job, is back at the base
C27_Witness ==
    /\ IdleCeiling = config.pollIntervalMs
    /\ IdleCeiling > 4 * IdleBase
    /\ \E w, v \in Workers :
          /\ pc[w] = "sleep" /\ idleDelay[w] = IdleCeiling
          /\ pc[v] = "process" /\ idleDelay[v] = IdleBase

\* ---- a worker that dies with a job (Spec) -------------------------------------

\* w ended (it died, or a store error left its loop) holding a job
DiedHolding(w) == pc[w] = "crashed" /\ Held(w)

\* C28: a job claimed by a worker that then ends without finalizing or requeueing
\* it stays processing: no operation of the pool changes its record, no claim
\* selects or returns it, and the worker that ended does not come back.
C28_CrashedJobStaysProcessing ==
    [][\A w \in Workers :
          DiedHolding(w) =>
              LET j == HeldBy(w).id
              IN /\ jobs[j].status = "processing"
                 /\ jobs'[j] = jobs[j]
                 /\ DiedHolding(w)' /\ HeldBy(w)' = HeldBy(w)
                 /\ \A v \in Workers :
                       /\ row'[v] # Null => Val(row'[v]).id # j
                       /\ (v # w /\ Held(v)') => HeldBy(v)'.id # j]_vars

\* a worker died while processing; long after, the other loop, with nothing else
\* to do, claimed and got null
C28_Witness ==
    /\ lastOp.op = "takeNull"
    /\ \E w \in Workers :
          /\ DiedHolding(w)
          /\ error[w] = Null
          /\ jobs[HeldBy(w).id].status = "processing"
          /\ jobs[HeldBy(w).id].updatedAt < now
          /\ \A k \in DOMAIN jobs \ {HeldBy(w).id} : jobs[k].status \in Terminal
    /\ Len(jobs) = NumJobs

\* ---- the remote download (DownloadSpec) --------------------------------------

\* the source file of the job w holds
FileOf(w) == files[HeldBy(w).id]

\* the length of the body of w's response
BodyLength(w) == dl[w].left + dl[w].total

\* C29: a response that declares a content-length above downloadMaxBytes is
\* rejected at the check of the response: the destination file is neither created
\* nor written and no byte of the body has been read; the error is caught by
\* handleJob, which requeues the job or, with retries exhausted, fails it.
C29_DeclaredOversizeRejected ==
    [][\A w \in Workers :
          /\ ( /\ dl[w].phase = "response"
                /\ dl[w].declared # Null
                /\ Val(dl[w].declared) > config.downloadMaxBytes
                /\ dl'[w] # dl[w] ) =>
                /\ pc'[w] = "catch"
                /\ error'[w] \in {Some(HttpError), Some(UnsupportedType), Some(TooLarge)}
                /\ (dl[w].ok /\ MatchesAllowedType(dl[w].contentType)) => error'[w] = Some(TooLarge)
                /\ dl[w].total = 0
                /\ files' = files
          /\ dl[w].phase = "response" => dl[w].total = 0
          /\ (HandlesFailure(w) /\ error[w] = Some(TooLarge)) =>
                LET r == jobs'[HeldBy(w).id]
                IN /\ r.errorMessage = Some(TooLarge)
                   /\ IF HeldBy(w).attempts < config.workerMaxRetries + 1
                      THEN r.status = "queued" /\ r.availableAt # Null
                      ELSE r.status = "failed"]_vars

\* the first download of a job was rejected for its declared length: no file, and
\* the job requeued with that message
C29_Witness ==
    /\ lastOp.op = "requeueJob"
    /\ Len(jobs) = 1
    /\ jobs[1].status = "queued"
    /\ jobs[1].attempts = 1
    /\ jobs[1].errorMessage = Some(TooLarge)
    /\ files[1] = Null

\* C30: whatever content-length the response declared, the file never holds more
\* than downloadMaxBytes bytes; a chunk that takes the count above the ceiling
\* fails the download in the step it arrives, without being written; a body longer
\* than the ceiling never ends in a finished download, and what the failed
\* download leaves at the path is shorter than the body.
C30_StreamCutAtCeiling ==
    [][/\ \A j \in JobIds :
             files'[j] # Null => Val(files'[j]) <= config.downloadMaxBytes
       /\ \A w \in Workers :
             /\ dl'[w].total <= config.downloadMaxBytes
             /\ dl[w].phase = "streaming" =>
                   /\ FileOf(w) = Some(dl[w].total)
                   /\ (dl[w].total = config.downloadMaxBytes /\ dl[w].left > 0
                          /\ dl'[w] # dl[w]) =>
                         /\ pc'[w] = "catch"
                         /\ error'[w] \in {Some(LimitExceeded), Some(TimedOut)}
                         /\ files' = files
                   /\ (pc'[w] = "catch" /\ error'[w] = Some(LimitExceeded)) =>
                         /\ BodyLength(w) > config.downloadMaxBytes
                         /\ files' = files
                         /\ Val(FileOf(w)') < BodyLength(w)
             /\ dl'[w].phase = "done" =>
                   /\ BodyLength(w)' <= config.downloadMaxBytes
                   /\ FileOf(w)' = Some(BodyLength(w)')]_vars

\* a body longer than the ceiling, sent with no content-length or an understated
\* one, was cut when it crossed the ceiling: the file holds a full ceiling of bytes
\* and the job is requeued with the limiter's message
C30_Witness ==
    /\ lastOp.op = "requeueJob"
    /\ Len(jobs) = 1
    /\ jobs[1].status = "queued"
    /\ jobs[1].errorMessage = Some(LimitExceeded)
    /\ files[1] = Some(config.downloadMaxBytes)

\* the response's content type starts with video/ or audio/ or with
\* application/octet-stream, whatever the case of its letters
OnAllowList(contentType) ==
    \E rule \in ALLOWED_REMOTE_TYPES : StartsWith(ToLowerCase(contentType), rule)

\* C31: a remote download is accepted only if the response's content type is on the
\* allow-list (video/*, audio/* or application/octet-stream): a download whose body
\* is being streamed, or has been, has such a content type, and the step that checks
\* a response with any other content type throws Unsupported content type without
\* creating or writing the file
C31_OnlyAllowListedAccepted ==
    [][\A w \in Workers :
          /\ (dl'[w].phase \in {"streaming", "done"}) => OnAllowList(dl'[w].contentType)
          /\ (/\ dl[w].phase = "response"
              /\ dl'[w].phase # "response"
              /\ dl[w].ok
              /\ ~OnAllowList(dl[w].contentType))
                => /\ error'[w] = Some(UnsupportedType)
                   /\ files' = files]_vars


\* the callers between a successful acquireLock and their releaseLock
Holders == {c \in Callers : proc[c].pc \in Holding}

\* C32: the lock of the JSON store gives mutual exclusion: at most one caller of
\* withStore is between a successful acquireLock and its releaseLock at any time,
\* also when waiting callers examine and remove a stale lock file
C32_MutualExclusion == Cardinality(Holders) <= 1


\* the lock file at the path is the one the dead holder left
DeadLock == disk.lock # Null /\ Val(disk.lock).owner = 0

\* caller c gives up in acquireLock: Timed out acquiring lock is thrown
TimesOut(c) == proc[c].pc = "open" /\ proc'[c].pc = "idle"

\* C40: a lock file left behind by a holder that died inside withStore does not block
\* the store forever: with callers that retry, the file is removed once it is older
\* than the stale threshold and a caller acquires the lock and persists its state,
\* and every caller that has acquired the lock completes its call; a caller that
\* gives up after the lock timeout leaves the lock file, the store file and the
\* backup as they were
C40_StaleLockRecovered ==
    /\ DeadLock ~> (\E c \in LockCallers : proc[c].pc = "release")
    /\ \A c \in LockCallers : (proc[c].pc \in Holding) ~> (proc[c].pc = "idle")
    /\ [][\A c \in LockCallers :
             TimesOut(c) => /\ proc[c].waited > LOCK_TIMEOUT_MS
                            /\ disk' = disk
                            /\ hist' = hist]_vars

\* a caller has taken the lock after the dead holder's file was removed, and has
\* persisted its state
C40_Witness ==
    \E c \in LockCallers :
       /\ proc[c].pc = "release"
       /\ disk.lock = Some([owner |-> c, age |-> 0])
       /\ hist.lastDone # Null


\* C38: withStore always releases its lock, whether the mutator returns or throws:
\* a caller leaves withStore only through releaseLock, which removes the lock file,
\* and no lock file stays behind under the name of a caller that has left. When the
\* load or the mutator throws nothing is persisted: from the throw to the return the
\* store file and its backup keep their contents, which are those of before the call
C38_ThrowReleasesAndKeepsFiles ==
    /\ [](disk.lock # Null => proc[Val(disk.lock).owner].pc \in Holding)
    /\ [][\A c \in LockCallers :
             /\ (proc[c].pc \in Holding /\ proc'[c].pc \notin Holding)
                   => proc[c].pc = "release" /\ disk'.lock = Null
             /\ (proc[c].threw \/ proc'[c].threw)
                   => /\ disk'.main = disk.main
                      /\ disk'.bak = disk.bak
                      /\ disk.main = hist.committed \/ disk.main = Absent
                      /\ proc[c].pc \in {"load", "mutate", "release"}]_vars

\* a mutator has thrown on a store that holds state persisted by earlier calls
C38_Witness ==
    \E c \in LockCallers :
       /\ proc[c].pc = "release"
       /\ proc[c].threw
       /\ disk.main > DefaultValue
       /\ disk.bak = disk.main


\* caller c returns from a loadStore of its own
ReadReturns(c) == proc[c].pc \in Reading /\ proc'[c].pc = "idle"

Initialising == {"initmain", "initwrite", "initbak", "initbakwrite"}

\* C39: initStore never destroys data: run side by side with, or after, withStore
\* calls of other callers on the same file, no step of it changes a store file or
\* a backup that holds a state other than the default
C39_InitKeepsData ==
    [][\A c \in Callers :
          (proc[c].pc \in Initialising /\ proc'[c] # proc[c])
             => /\ disk.main > DefaultValue => disk'.main = disk.main
                /\ disk.bak > DefaultValue => disk'.bak = disk.bak]_vars


\* caller c's loadStore returns after it has read the backup
LoadReturnsAfterBackup(c) ==
    proc[c].pc \in {"loadbak", "rbak"} /\ proc'[c].pc \notin {"loadbak", "rbak", "dead"}

\* caller c's loadStore returns after it has read the store file only
LoadReturnsAfterMain(c) ==
    proc[c].pc \in {"load", "rload"} /\ proc'[c].pc \in {"mutate", "idle"}

\* C34: when the store file cannot be parsed loadStore returns the contents of the
\* backup, and that backup is the state written by the last completed withStore; the
\* default is returned only when neither the store file nor the backup can be parsed
C34_BackupIsLastPersisted ==
    [][\A c \in Callers :
          /\ LoadReturnsAfterBackup(c) =>
                IF Parses(disk.bak)
                THEN /\ proc'[c].state = disk.bak
                     /\ hist.lastDone # Null => disk.bak = Val(hist.lastDone)
                ELSE proc'[c].state = DefaultValue
          /\ (LoadReturnsAfterMain(c) /\ ~Parses(disk.main)) => ~Parses(disk.bak)]_vars


\* w's handleJob returns in this step
HandleJobReturns(w) == pc[w] \in {"process", "catch"} /\ pc'[w] = "claim"

\* C35: for each claimed attempt the worker writes exactly one outcome to the store:
\* the step in which handleJob returns writes one outcome (completed, queued or
\* failed) to the job the loop holds, until then still processing, and to no other
\* job; the catch block is entered with nothing written, so after a finalizeJob
\* (completed) that succeeded no requeueJob or finalizeJob(failed) follows, and a
\* completed job is never changed again
C35_OneOutcomePerAttempt ==
    [][/\ \A w \in Workers :
             /\ HandleJobReturns(w) =>
                   /\ jobs[HeldBy(w).id].status = "processing"
                   /\ jobs'[HeldBy(w).id].status \in {"completed", "queued", "failed"}
                   /\ \A j \in DOMAIN jobs \ {HeldBy(w).id} : jobs'[j] = jobs[j]
             /\ (pc[w] = "process" /\ pc'[w] = "catch") =>
                   /\ jobs' = jobs
                   /\ jobs[HeldBy(w).id].status = "processing"
       /\ \A j \in DOMAIN jobs : jobs[j].status = "completed" => jobs'[j] = jobs[j]]_vars

\* a job was completed on a retry: its first attempt was requeued, its second
\* finalized as completed, and the loop is back at the claim
C35_Witness ==
    \E j \in DOMAIN jobs :
       /\ jobs[j].status = "completed"
       /\ jobs[j].attempts = 2
       /\ \A w \in Workers : job[w] = Null


\* C36: if no worker crashes, every download and clip generation returns or throws,
\* store operations succeed and time advances, then under fair scheduling of the
\* worker loops every created job eventually reaches status completed or failed,
\* after at most workerMaxRetries + 1 attempts
C36_EveryJobFinishes ==
    /\ \A j \in JobIds :
          (j \in DOMAIN jobs) ~> (j \in DOMAIN jobs /\ jobs[j].status \in Terminal)
    /\ [](\A j \in DOMAIN jobs : jobs[j].attempts <= config.workerMaxRetries + 1)

\* a job has failed for good after workerMaxRetries + 1 attempts while another was
\* completed
C36_Witness ==
    \E j, k \in DOMAIN jobs :
       /\ jobs[j].status = "failed"
       /\ jobs[j].attempts = config.workerMaxRetries + 1
       /\ jobs[k].status = "completed"


\* ---- takeNextQueuedJob changes one row (Spec) ------------------------------------

\* the fields of a row the claim's UPDATE may change
ClaimFields == {"status", "attempts", "availableAt", "updatedAt"}

\* loop w's call of takeNextQueuedJob returns in this step
TakeCallReturns(w) == pc[w] \in {"select", "update"} /\ pc'[w] \in {"sleep", "process"}

\* C37: takeNextQueuedJob changes at most one job. When it returns a job, every other
\* row is as before and no row is added or removed, the row of the returned job
\* differs from what it was in status, attempts, availableAt and updatedAt at most,
\* and the returned copy is that row as getJob would serialize it; when it returns
\* null, no row is changed.
C37_TakeChangesOneJob ==
    [][\A w \in Workers :
          TakeCallReturns(w) =>
             IF pc'[w] = "sleep"
             THEN jobs' = jobs
             ELSE LET id == ReturnedJob(w).id
                  IN /\ DOMAIN jobs' = DOMAIN jobs
                     /\ \A j \in DOMAIN jobs \ {id} : jobs'[j] = jobs[j]
                     /\ \A f \in DOMAIN jobs[id] \ ClaimFields : jobs'[id][f] = jobs[id][f]
                     /\ ReturnedJob(w) = SerializeJob([id |-> id] @@ jobs'[id])
                     /\ Val(job'[w]).id = id]_vars

\* a job that was requeued with a delay and an error message has been claimed again
\* while another job exists
C37_Witness ==
    \E w \in Workers :
        /\ pc[w] = "process"
        /\ job[w] # Null
        /\ Len(jobs) > 1
        /\ jobs[Val(job[w]).id].status = "processing"
        /\ jobs[Val(job[w]).id].attempts = 2
        /\ jobs[Val(job[w]).id].availableAt = Null
        /\ jobs[Val(job[w]).id].errorMessage # Null

====
